---------------------------- MODULE Spec2Model ----------------------------
(***************************************************************************)
(* A model of the forecasting backend (backend/app): the cleaning          *)
(* pipeline (core/preprocessing.py), the feature frame builder             *)
(* (core/features.py), the evaluation engine (core/evaluation.py), the     *)
(* lag search (core/grid_search.py, core/training.py), the forecast        *)
(* generator (core/training.py) and the /upload, /process and /train       *)
(* handlers (api/endpoints.py).                                            *)
(*                                                                         *)
(* Numbers are IEEE-like extended rationals <<n, d>>: d > 0 is the finite  *)
(* value n/d in lowest terms, <<0,0>> is NaN (a missing cell), <<1,0>> is  *)
(* +inf and <<-1,0>> is -inf.  A raw cell may also be Text, <<2,0>>, a     *)
(* string that no numeric parser accepts.                                  *)
(***************************************************************************)
EXTENDS Integers, Sequences, FiniteSets, TLC

VARIABLES
    ho_pc,       \* handle_outliers: "call", "return" or "raise"
    ho_df,       \* handle_outliers: the input table (rows [v, o])
    ho_action,   \* handle_outliers: the action argument
    ho_result,   \* handle_outliers: the returned table
    cl_pc,       \* clean_dataframe_for_training: the position in the function
    cl_df,       \* clean_dataframe_for_training: the input table df
    cl_args,     \* clean_dataframe_for_training: the other arguments
    cl_result,   \* clean_dataframe_for_training: the local table result
    cl_loc,      \* clean_dataframe_for_training: the other locals
    cl_report,   \* clean_dataframe_for_training: the returned report
    ff_pc,       \* build_feature_frame: "call" or "return"
    ff_args,     \* build_feature_frame: the arguments
    ff_result,   \* build_feature_frame: the returned frame
    fc_pc,       \* forecast_future: the position in the function
    fc_args,     \* forecast_future: the arguments
    fc_loc,      \* forecast_future: the locals
    wf_pc,       \* evaluate_* / walk_forward_rmse: the position
    wf_args,     \* evaluate_* / walk_forward_rmse: the arguments
    wf_loc,      \* walk_forward_rmse: the locals
    ls_pc,       \* select_lags / grid_search_lags: the position
    ls_args,     \* select_lags: the arguments
    ls_loc,      \* select_lags / grid_search_lags: the locals
    api_dataframes,                  \* endpoints._dataframes[project]
    api_driver_dataframes,           \* endpoints._driver_dataframes[project]
    api_processed_dataframes,        \* endpoints._processed_dataframes[project]
    api_processed_driver_dataframes, \* endpoints._processed_driver_dataframes[project]
    api_response,                    \* the last response of a handler
    cn_pc,       \* column resolver: the position
    cn_df,       \* column resolver: the table (rows, column labels, empty columns)
    cn_args,     \* column resolver: the requested labels
    cn_loc,      \* column resolver: the mapping and the resolved keys
    dp_pc,       \* date parsing: "call" or the function that returned
    dp_args,     \* date parsing: the column and the pandas in use
    dp_result,   \* date parsing: the parsed column
    fn_pc,       \* a helper called on its own: "call", "return" or "raise"
    fn_args,     \* a helper called on its own: its name and arguments
    fn_result,   \* a helper called on its own: what it returned or raised
    tf_pc,       \* train_and_forecast: the position in the function
    tf_args,     \* train_and_forecast: the series length and the settings
    tf_loc       \* train_and_forecast: the locals and what was produced

hoVars == <<ho_pc, ho_df, ho_action, ho_result>>
clVars == <<cl_pc, cl_df, cl_args, cl_result, cl_loc, cl_report>>
ffVars == <<ff_pc, ff_args, ff_result>>
fcVars == <<fc_pc, fc_args, fc_loc>>
wfVars == <<wf_pc, wf_args, wf_loc>>
lsVars == <<ls_pc, ls_args, ls_loc>>
apiStores ==
    <<api_dataframes, api_driver_dataframes, api_processed_dataframes,
      api_processed_driver_dataframes>>
apiVars == <<apiStores, api_response>>
cnVars == <<cn_pc, cn_df, cn_args, cn_loc>>
dpVars == <<dp_pc, dp_args, dp_result>>
fnVars == <<fn_pc, fn_args, fn_result>>
tfVars == <<tf_pc, tf_args, tf_loc>>

vars == <<hoVars, clVars, ffVars, fcVars, wfVars, lsVars, apiVars, cnVars, dpVars, fnVars, tfVars>>

\* What an action of one component leaves alone: the other components.
notHo == <<clVars, ffVars, fcVars, wfVars, lsVars, apiVars, cnVars, dpVars, fnVars, tfVars>>
notCl == <<hoVars, ffVars, fcVars, wfVars, lsVars, apiVars, cnVars, dpVars, fnVars, tfVars>>
notFf == <<hoVars, clVars, fcVars, wfVars, lsVars, apiVars, cnVars, dpVars, fnVars, tfVars>>
notFc == <<hoVars, clVars, ffVars, wfVars, lsVars, apiVars, cnVars, dpVars, fnVars, tfVars>>
notWf == <<hoVars, clVars, ffVars, fcVars, lsVars, apiVars, cnVars, dpVars, fnVars, tfVars>>
notLs == <<hoVars, clVars, ffVars, fcVars, wfVars, apiVars, cnVars, dpVars, fnVars, tfVars>>
notApi == <<hoVars, clVars, ffVars, fcVars, wfVars, lsVars, cnVars, dpVars, fnVars, tfVars>>
notCn == <<hoVars, clVars, ffVars, fcVars, wfVars, lsVars, apiVars, dpVars, fnVars, tfVars>>
notDp == <<hoVars, clVars, ffVars, fcVars, wfVars, lsVars, apiVars, cnVars, fnVars, tfVars>>
notFn == <<hoVars, clVars, ffVars, fcVars, wfVars, lsVars, apiVars, cnVars, dpVars, tfVars>>
notTf == <<hoVars, clVars, ffVars, fcVars, wfVars, lsVars, apiVars, cnVars, dpVars, fnVars>>

--------------------------------------------------------------------------
(* Extended rational arithmetic (the float semantics pandas/numpy use).    *)

Abs(x) == IF x < 0 THEN -x ELSE x

RECURSIVE GCD(_, _)
GCD(a, b) == IF b = 0 THEN a ELSE GCD(b, a % b)

Num(n, d) ==
    LET g == GCD(Abs(n), d)
    IN  <<n \div g, d \div g>>

IntV(n) == <<n, 1>>
NaN == <<0, 0>>
PInf == <<1, 0>>
NInf == <<-1, 0>>
Text == <<2, 0>>

IsNaN(x) == x = NaN
IsFinite(x) == x[2] > 0
IsInf(x) == x = PInf \/ x = NInf
IsZero(x) == IsFinite(x) /\ x[1] = 0
SignOf(x) == IF x[1] > 0 THEN 1 ELSE IF x[1] < 0 THEN -1 ELSE 0

XNeg(a) == <<-a[1], a[2]>>

XAdd(a, b) ==
    IF IsNaN(a) \/ IsNaN(b) THEN NaN
    ELSE IF IsFinite(a) /\ IsFinite(b) THEN Num(a[1] * b[2] + b[1] * a[2], a[2] * b[2])
    ELSE IF IsFinite(b) THEN a
    ELSE IF IsFinite(a) THEN b
    ELSE IF a = b THEN a
    ELSE NaN

XSub(a, b) == XAdd(a, XNeg(b))

XMul(a, b) ==
    IF IsNaN(a) \/ IsNaN(b) THEN NaN
    ELSE IF IsFinite(a) /\ IsFinite(b) THEN Num(a[1] * b[1], a[2] * b[2])
    ELSE IF IsZero(a) \/ IsZero(b) THEN NaN
    ELSE IF SignOf(a) * SignOf(b) > 0 THEN PInf ELSE NInf

\* a < b as floats compare: false as soon as one side is NaN.
XLess(a, b) ==
    IF IsNaN(a) \/ IsNaN(b) THEN FALSE
    ELSE IF IsFinite(a) /\ IsFinite(b) THEN a[1] * b[2] < b[1] * a[2]
    ELSE IF a = b THEN FALSE
    ELSE a = NInf \/ b = PInf

XLeq(a, b) == ~IsNaN(a) /\ ~IsNaN(b) /\ (a = b \/ XLess(a, b))

--------------------------------------------------------------------------
(* Sequence helpers.                                                       *)

Range(s) == {s[i] : i \in 1..Len(s)}

\* The sequences over S of length at most n.
SeqsUpTo(S, n) == UNION {[1..k -> S] : k \in 0..n}

\* The rows of s whose position satisfies keep, in order.
RECURSIVE FilterIdx(_, _, _)
FilterIdx(s, keep, i) ==
    IF i > Len(s) THEN <<>>
    ELSE IF keep[i] THEN <<s[i]>> \o FilterIdx(s, keep, i + 1)
    ELSE FilterIdx(s, keep, i + 1)

\* Insert x into the ascending sequence s after every element not above it.
RECURSIVE InsertSorted(_, _)
InsertSorted(s, x) ==
    IF s = <<>> THEN <<x>>
    ELSE IF XLess(x, s[1]) THEN <<x>> \o s
    ELSE <<s[1]>> \o InsertSorted(Tail(s), x)

RECURSIVE SortValues(_)
SortValues(s) ==
    IF s = <<>> THEN <<>>
    ELSE InsertSorted(SortValues(SubSeq(s, 1, Len(s) - 1)), s[Len(s)])

Min2(a, b) == IF a < b THEN a ELSE b
Max2(a, b) == IF a > b THEN a ELSE b

--------------------------------------------------------------------------
(* Outlier handling: detect_outliers and handle_outliers                   *)
(* (core/preprocessing.py).  A table is a sequence of rows; a row is a     *)
(* function from column names to cells.                                    *)

Column(df, column) == [i \in 1..Len(df) |-> df[i][column]]

\* Series.dropna() on one column's values.
RECURSIVE DropNaN(_)
DropNaN(s) ==
    IF s = <<>> THEN <<>>
    ELSE IF IsNaN(s[1]) THEN DropNaN(Tail(s))
    ELSE <<s[1]>> \o DropNaN(Tail(s))

\* numpy's _lerp(a, b, t): a + (b - a) * t, and b - (b - a) * (1 - t) from t >= 1/2.
Lerp(a, b, t) ==
    LET diff == XSub(b, a)
    IN  IF XLess(t, Num(1, 2))
        THEN XAdd(a, XMul(diff, t))
        ELSE XSub(b, XMul(diff, XSub(IntV(1), t)))

\* Series.quantile(qn/qd): missing values are skipped, then numpy's linear
\* method on the sorted values (virtual index q * (n - 1)).
Quantile(values, qn, qd) ==
    LET xs == SortValues(DropNaN(values))
        n == Len(xs)
        pos == qn * (n - 1)
        lo == pos \div qd
        gamma == Num(pos % qd, qd)
    IN  IF n = 0 THEN NaN
        ELSE Lerp(xs[lo + 1], xs[Min2(lo + 2, n)], gamma)

\* threshold: float = 1.5
Threshold == Num(3, 2)

LowerBound(values) ==
    LET q1 == Quantile(values, 1, 4)
        q3 == Quantile(values, 3, 4)
    IN  XSub(q1, XMul(Threshold, XSub(q3, q1)))

UpperBound(values) ==
    LET q1 == Quantile(values, 1, 4)
        q3 == Quantile(values, 3, 4)
    IN  XAdd(q3, XMul(Threshold, XSub(q3, q1)))

\* A mask of the low outliers only (a wrong variant, used to test the
\* properties).
DetectOutliersLowOnly(df, column) ==
    LET values == Column(df, column)
    IN  [i \in 1..Len(df) |-> XLess(values[i], LowerBound(values))]

\* detect_outliers(df, column, "iqr"): the boolean mask, True = outlier.
DetectOutliers(df, column) ==
    LET values == Column(df, column)
        lower_bound == LowerBound(values)
        upper_bound == UpperBound(values)
    IN  [i \in 1..Len(df) |->
            XLess(values[i], lower_bound) \/ XLess(upper_bound, values[i])]

\* A clip that ignores the lower threshold (a wrong variant, used to test the
\* properties).
ClipUpperOnly(v, lower, upper) ==
    IF ~IsNaN(upper) /\ XLess(upper, v) THEN upper ELSE v

\* Series.clip(lower, upper): a NaN threshold does not clip, a NaN cell stays.
Clip(v, lower, upper) ==
    LET lo == IF ~IsNaN(lower) /\ XLess(v, lower) THEN lower ELSE v
    IN  IF ~IsNaN(upper) /\ XLess(upper, lo) THEN upper ELSE lo

\* handle_outliers(df, column, action, method="iqr"): [ok, df]; ok = FALSE is
\* the ValueError of an unknown action.
HandleOutliers(df, column, action) ==
    LET values == Column(df, column)
        mask == DetectOutliers(df, column)
    IN  IF action = "keep" THEN [ok |-> TRUE, df |-> df]
        ELSE IF action = "remove"
        THEN [ok |-> TRUE,
              df |-> FilterIdx(df, [i \in 1..Len(df) |-> ~mask[i]], 1)]
        ELSE IF action = "cap"
        THEN [ok |-> TRUE,
              df |-> [i \in 1..Len(df) |->
                        [df[i] EXCEPT ![column] =
                            Clip(@, LowerBound(values), UpperBound(values))]]]
        ELSE [ok |-> FALSE, df |-> <<>>]

--------------------------------------------------------------------------
(* Missing-value handling: handle_missing (core/preprocessing.py) and the  *)
(* pandas reductions it uses.                                              *)

\* Series.median(): missing values skipped; the mean of the two middle values
\* of an even count; NaN for no value.
Median(values) ==
    LET xs == SortValues(DropNaN(values))
        n == Len(xs)
    IN  IF n = 0 THEN NaN
        ELSE IF n % 2 = 1 THEN xs[(n + 1) \div 2]
        ELSE XMul(XAdd(xs[n \div 2], xs[n \div 2 + 1]), Num(1, 2))

RECURSIVE SumValues(_)
SumValues(s) == IF s = <<>> THEN IntV(0) ELSE XAdd(s[1], SumValues(Tail(s)))

\* Series.mean(): missing values skipped; NaN for no value.
Mean(values) ==
    LET xs == DropNaN(values)
    IN  IF xs = <<>> THEN NaN ELSE XMul(SumValues(xs), Num(1, Len(xs)))

\* The nearest position before/after i that holds a value (0: none).
PrevValid(values, i) ==
    LET c == {j \in 1..(i - 1) : ~IsNaN(values[j])}
    IN  IF c = {} THEN 0 ELSE CHOOSE j \in c : \A k \in c : k <= j

NextValid(values, i) ==
    LET c == {j \in (i + 1)..Len(values) : ~IsNaN(values[j])}
    IN  IF c = {} THEN 0 ELSE CHOOSE j \in c : \A k \in c : j <= k

\* numpy.interp between (p, a) and (q, b) at x: slope * (x - p) + a, the other
\* end when that is NaN, and a when both are and a = b.
Interp(p, a, q, b, x) ==
    LET slope == XMul(XSub(b, a), Num(1, q - p))
        r1 == XAdd(XMul(slope, IntV(x - p)), a)
        r2 == XAdd(XMul(slope, IntV(x - q)), b)
    IN  IF ~IsNaN(r1) THEN r1
        ELSE IF ~IsNaN(r2) THEN r2
        ELSE IF a = b THEN a
        ELSE NaN

\* Series.interpolate(method="linear"): rows are equally spaced; a gap between
\* two values is interpolated, a trailing gap takes the last value, a leading
\* gap stays missing (limit_direction="forward").
Interpolate(values) ==
    [i \in 1..Len(values) |->
        IF ~IsNaN(values[i]) THEN values[i]
        ELSE LET p == PrevValid(values, i)
                 q == NextValid(values, i)
             IN  IF p = 0 THEN NaN
                 ELSE IF q = 0 THEN values[p]
                 ELSE Interp(p, values[p], q, values[q], i)]

Ffill(values) ==
    [i \in 1..Len(values) |->
        IF ~IsNaN(values[i]) \/ PrevValid(values, i) = 0 THEN values[i]
        ELSE values[PrevValid(values, i)]]

Bfill(values) ==
    [i \in 1..Len(values) |->
        IF ~IsNaN(values[i]) \/ NextValid(values, i) = 0 THEN values[i]
        ELSE values[NextValid(values, i)]]

SetColumn(df, column, values) ==
    [i \in 1..Len(df) |-> [df[i] EXCEPT ![column] = values[i]]]

\* handle_missing(df, column, strategy) for the strategies the pipeline uses.
HandleMissing(df, column, strategy) ==
    LET values == Column(df, column)
    IN  IF strategy = "drop"
        THEN FilterIdx(df, [i \in 1..Len(df) |-> ~IsNaN(values[i])], 1)
        ELSE IF strategy = "median"
        THEN SetColumn(df, column,
                [i \in 1..Len(df) |->
                    IF IsNaN(values[i]) THEN Median(values) ELSE values[i]])
        ELSE IF strategy = "ffill" THEN SetColumn(df, column, Ffill(values))
        ELSE IF strategy = "bfill" THEN SetColumn(df, column, Bfill(values))
        ELSE SetColumn(df, column, Interpolate(values))

--------------------------------------------------------------------------
(* validate_ready_for_ml (core/preprocessing.py).  numeric names the       *)
(* columns of a numeric dtype.                                             *)

\* A check that counts too few rows as an error (a wrong variant, used to test
\* the properties).
ValidateReadyForMlRowsFatal(df, columns, numeric, target_column, min_rows) ==
    IF target_column \notin columns
    THEN [ready |-> FALSE, errors |-> {<<"target_missing", target_column>>},
          warnings |-> {}]
    ELSE LET errors ==
                 {<<"target_nan", target_column>> : x \in
                     {i \in 1..Len(df) : IsNaN(df[i][target_column])}}
                 \cup {<<"all_nan", c>> : c \in
                     {k \in columns : \A i \in 1..Len(df) : IsNaN(df[i][k])}}
                 \cup {<<"infinite", c>> : c \in
                     {k \in numeric : \E i \in 1..Len(df) : IsInf(df[i][k])}}
                 \cup (IF Len(df) < min_rows THEN {<<"low_data", ""  >>} ELSE {})
         IN  [ready |-> errors = {},
              errors |-> errors,
              warnings |-> IF Len(df) < min_rows THEN {"low_data"} ELSE {}]

ValidateReadyForMl(df, columns, numeric, target_column, min_rows) ==
    IF target_column \notin columns
    THEN [ready |-> FALSE, errors |-> {<<"target_missing", target_column>>},
          warnings |-> {}]
    ELSE LET errors ==
                 {<<"target_nan", target_column>> : x \in
                     {i \in 1..Len(df) : IsNaN(df[i][target_column])}}
                 \cup {<<"all_nan", c>> : c \in
                     {k \in columns : \A i \in 1..Len(df) : IsNaN(df[i][k])}}
                 \cup {<<"infinite", c>> : c \in
                     {k \in numeric : \E i \in 1..Len(df) : IsInf(df[i][k])}}
         IN  [ready |-> errors = {},
              errors |-> errors,
              warnings |-> IF Len(df) < min_rows THEN {"low_data"} ELSE {}]

--------------------------------------------------------------------------
(* The steps of clean_dataframe_for_training (core/preprocessing.py).      *)
(* Column labels are canonical keys here; a date cell is a day number      *)
(* (day 0 is a Monday), NaN when missing and Text when unparseable.        *)

AllColumns == {"date", "target", "drv"}

\* df.dropna(how="all"): rows with no value at all.
DropEmptyRows(df) ==
    FilterIdx(df, [i \in 1..Len(df) |-> \E c \in AllColumns : ~IsNaN(df[i][c])], 1)

\* df.dropna(axis=1, how="all"): the columns that keep a value.
KeptColumns(df) == {c \in AllColumns : \E i \in 1..Len(df) : ~IsNaN(df[i][c])}

\* _resolve_column_name against the mapping of the kept columns.
ResolveColumnName(requested_name, columns) ==
    IF requested_name \in columns
    THEN [ok |-> TRUE, key |-> requested_name]
    ELSE [ok |-> FALSE, key |-> ""]

\* The loop over requested_drivers: unknown labels are skipped, as are labels
\* that resolve to the date or the target column.
RECURSIVE ResolveDrivers(_, _, _, _)
ResolveDrivers(requested, columns, date_col, target_col) ==
    IF requested = <<>> THEN <<>>
    ELSE LET r == ResolveColumnName(requested[1], columns)
             rest == ResolveDrivers(Tail(requested), columns, date_col, target_col)
         IN  IF r.ok /\ r.key \notin {date_col, target_col}
             THEN <<r.key>> \o rest
             ELSE rest

\* pd.to_datetime(errors="coerce") and _coerce_numeric on already tokenised
\* cells: a Text cell becomes missing.
CoerceCell(x) == IF x = Text THEN NaN ELSE x

CountNaN(values) == Cardinality({i \in 1..Len(values) : IsNaN(values[i])})

\* One pass of the loop over driver_cols_clean: numeric when at least 60% of
\* the cells coerce, else categorical (cells kept as strings).
IsNumericDriver(df, col) ==
    LET candidate == [i \in 1..Len(df) |-> CoerceCell(df[i][col])]
    IN  Len(df) > 0 /\ 10 * (Len(df) - CountNaN(candidate)) >= 6 * Len(df)

RECURSIVE CoerceDrivers(_, _)
CoerceDrivers(df, cols) ==
    IF cols = <<>> THEN df
    ELSE LET col == cols[1]
             next == IF IsNumericDriver(df, col)
                     THEN SetColumn(df, col, [i \in 1..Len(df) |-> CoerceCell(df[i][col])])
                     ELSE df
         IN  CoerceDrivers(next, Tail(cols))

RECURSIVE NumericDrivers(_, _)
NumericDrivers(df, cols) ==
    IF cols = <<>> THEN <<>>
    ELSE (IF IsNumericDriver(df, cols[1]) THEN <<cols[1]>> ELSE <<>>)
         \o NumericDrivers(CoerceDrivers(df, <<cols[1]>>), Tail(cols))

RemoveAt(s, i) == SubSeq(s, 1, i - 1) \o SubSeq(s, i + 1, Len(s))

\* sort_values(date_col) with the default, unstable sort: every order of the
\* rows that is ascending by date (rows with equal dates in any order).
RECURSIVE SortedOrders(_, _)
SortedOrders(df, col) ==
    IF df = <<>> THEN {<<>>}
    ELSE UNION {{<<df[i]>> \o rest : rest \in SortedOrders(RemoveAt(df, i), col)} :
                   i \in {k \in 1..Len(df) :
                            \A j \in 1..Len(df) : ~XLess(df[j][col], df[k][col])}}

\* drop_duplicates(subset=[col], keep="last").
DropDuplicatesKeepLast(df, col) ==
    FilterIdx(df, [i \in 1..Len(df) |->
                     \A j \in (i + 1)..Len(df) : df[j][col] # df[i][col]], 1)

\* result[date].diff().dropna().median(), in days.
MedianGap(df, col) ==
    Median([i \in 1..(Len(df) - 1) |-> XSub(df[i + 1][col], df[i][col])])

\* dt.to_period("W-SUN"): the Monday-to-Sunday week of a day number.
WeekKey(d) == d[1] \div 7

\* A mean over the whole column instead of per week (a wrong variant, used to
\* test the properties).
WeeklyMeanAll(df, date_col, col) ==
    SetColumn(df, col, [i \in 1..Len(df) |-> Mean(Column(df, col))])

\* groupby(week_key)[col].transform("mean").
WeeklyMean(df, date_col, col) ==
    SetColumn(df, col,
        [i \in 1..Len(df) |->
            Mean(Column(FilterIdx(df,
                    [j \in 1..Len(df) |->
                        WeekKey(df[j][date_col]) = WeekKey(df[i][date_col])], 1),
                 col))])

RECURSIVE WeeklyMeans(_, _, _)
WeeklyMeans(df, date_col, cols) ==
    IF cols = <<>> THEN df
    ELSE WeeklyMeans(WeeklyMean(df, date_col, cols[1]), date_col, Tail(cols))

\* The condition of the weekly averaging.
WeeklyAveragingApplies(df, date_col, numeric_driver_cols, average_flag) ==
    /\ average_flag
    /\ numeric_driver_cols # <<>>
    /\ ~IsNaN(MedianGap(df, date_col))
    /\ XLeq(MedianGap(df, date_col), IntV(2))

\* A target fill without the back-fill and the drop (a wrong variant, used to
\* test the properties).
FillTargetNoEdgeFill(df, target_col) ==
    HandleMissing(HandleMissing(df, target_col, "interpolate"), target_col, "ffill")

\* The four handle_missing calls on the target.
FillTarget(df, target_col) ==
    HandleMissing(
        HandleMissing(
            HandleMissing(
                HandleMissing(df, target_col, "interpolate"),
                target_col, "ffill"),
            target_col, "bfill"),
        target_col, "drop")

\* The loop over numeric_driver_cols: median fill, then the driver action.
RECURSIVE CleanNumericDrivers(_, _, _)
CleanNumericDrivers(df, cols, action) ==
    IF cols = <<>> THEN [ok |-> TRUE, df |-> df]
    ELSE LET filled == HandleMissing(df, cols[1], "median")
             r == IF action # "keep"
                  THEN HandleOutliers(filled, cols[1], action)
                  ELSE [ok |-> TRUE, df |-> filled]
         IN  IF r.ok THEN CleanNumericDrivers(r.df, Tail(cols), action) ELSE r

\* result[col].fillna("unknown") for the categorical drivers.
RECURSIVE FillCategorical(_, _)
FillCategorical(df, cols) ==
    IF cols = <<>> THEN df
    ELSE FillCategorical(
            SetColumn(df, cols[1],
                [i \in 1..Len(df) |->
                    IF IsNaN(df[i][cols[1]]) THEN Text ELSE df[i][cols[1]]]),
            Tail(cols))

RECURSIVE CategoricalDrivers(_, _)
CategoricalDrivers(df, cols) ==
    IF cols = <<>> THEN <<>>
    ELSE (IF IsNumericDriver(df, cols[1]) THEN <<>> ELSE <<cols[1]>>)
         \o CategoricalDrivers(CoerceDrivers(df, <<cols[1]>>), Tail(cols))

--------------------------------------------------------------------------
(* handle_outliers called on its own.                                      *)

MaxOutlierRows == 4
OutlierVals == {NaN, PInf, IntV(0), IntV(1), IntV(9)}
OutlierActions == {"keep", "cap", "remove", "zap"}

\* Tables with a value column "v" and a second column "o" holding the row's id.
OutlierTables(max_rows) ==
    {[i \in 1..Len(s) |-> [v |-> s[i], o |-> IntV(i)]] :
        s \in SeqsUpTo(OutlierVals, max_rows)}

HoInit ==
    /\ ho_pc = "call"
    /\ ho_df \in OutlierTables(MaxOutlierRows)
    /\ ho_action \in OutlierActions
    /\ ho_result = <<>>

HoIdle ==
    /\ ho_pc = "idle"
    /\ ho_df = <<>>
    /\ ho_action = "keep"
    /\ ho_result = <<>>

HandleOutliersCall ==
    /\ ho_pc = "call"
    /\ LET r == HandleOutliers(ho_df, "v", ho_action)
       IN  /\ ho_pc' = IF r.ok THEN "return" ELSE "raise"
           /\ ho_result' = r.df
    /\ UNCHANGED <<ho_df, ho_action>>
    /\ UNCHANGED notHo

--------------------------------------------------------------------------
(* clean_dataframe_for_training as a process: one action per block of the  *)
(* function, in program order.                                             *)

\* min_rows: int = 20
MinRows == 20

NoLocals ==
    [columns |-> {}, date_col |-> "", target_col |-> "", driver_cols |-> <<>>,
     numeric_driver_cols |-> <<>>, categorical_driver_cols |-> <<>>,
     target_nan_before |-> 0, invalid_dates |-> 0,
     driver_weekly_averaging_applied |-> FALSE]

NoReport == [error |-> "none"]

ClIdle ==
    /\ cl_pc = "idle"
    /\ cl_df = <<>>
    /\ cl_args = <<>>
    /\ cl_result = <<>>
    /\ cl_loc = NoLocals
    /\ cl_report = NoReport

ClRaise(cause) ==
    /\ cl_pc' = "raise"
    /\ cl_report' = [error |-> cause]
    /\ cl_result' = <<>>
    /\ UNCHANGED <<cl_df, cl_args, cl_loc>>

\* Lines 446-471: the empty check, the all-empty rows and columns, the column
\* mapping and the resolution of the requested labels.
CleanStart ==
    /\ UNCHANGED notCl
    /\ cl_pc = "start"
    /\ IF cl_df = <<>>
       THEN ClRaise("Input dataframe is empty")
       ELSE LET rows == DropEmptyRows(cl_df)
                columns == KeptColumns(rows)
                d == ResolveColumnName(cl_args.date_col, columns)
                t == ResolveColumnName(cl_args.target_col, columns)
            IN  IF ~d.ok \/ ~t.ok
                THEN ClRaise("Column not found")
                ELSE /\ cl_pc' = "resolved"
                     /\ cl_result' = rows
                     /\ cl_loc' = [NoLocals EXCEPT
                            !.columns = columns,
                            !.date_col = d.key,
                            !.target_col = t.key,
                            !.driver_cols =
                                ResolveDrivers(cl_args.driver_cols, columns, d.key, t.key)]
                     /\ UNCHANGED <<cl_df, cl_args, cl_report>>

\* Lines 473-492: the date parse and the drop of invalid dates, the target
\* coercion and the numeric/categorical split of the drivers.
CleanParse ==
    /\ UNCHANGED notCl
    /\ cl_pc = "resolved"
    /\ LET dc == cl_loc.date_col
           tc == cl_loc.target_col
           dated == SetColumn(cl_result, dc,
                        [i \in 1..Len(cl_result) |-> CoerceCell(cl_result[i][dc])])
           valid == HandleMissing(dated, dc, "drop")
           coerced == SetColumn(valid, tc,
                        [i \in 1..Len(valid) |-> CoerceCell(valid[i][tc])])
       IN  /\ cl_result' = CoerceDrivers(coerced, cl_loc.driver_cols)
           /\ cl_loc' = [cl_loc EXCEPT
                  !.target_nan_before = CountNaN(Column(cl_result, tc)),
                  !.invalid_dates = CountNaN(Column(dated, dc)),
                  !.numeric_driver_cols = NumericDrivers(coerced, cl_loc.driver_cols),
                  !.categorical_driver_cols =
                      CategoricalDrivers(coerced, cl_loc.driver_cols)]
    /\ cl_pc' = "parsed"
    /\ UNCHANGED <<cl_df, cl_args, cl_report>>

\* Lines 494-497: sort by date, drop duplicate dates keeping the last.
CleanSortDedup ==
    /\ UNCHANGED notCl
    /\ cl_pc = "parsed"
    /\ \E sorted \in SortedOrders(cl_result, cl_loc.date_col) :
           cl_result' = DropDuplicatesKeepLast(sorted, cl_loc.date_col)
    /\ cl_pc' = "deduped"
    /\ UNCHANGED <<cl_df, cl_args, cl_loc, cl_report>>

\* Lines 499-511: the weekly averaging of the numeric drivers.
CleanWeeklyAverage ==
    /\ UNCHANGED notCl
    /\ cl_pc = "deduped"
    /\ IF WeeklyAveragingApplies(cl_result, cl_loc.date_col,
                                 cl_loc.numeric_driver_cols,
                                 cl_args.average_daily_drivers_to_weekly)
       THEN /\ cl_result' = WeeklyMeans(cl_result, cl_loc.date_col,
                                        cl_loc.numeric_driver_cols)
            /\ cl_loc' = [cl_loc EXCEPT !.driver_weekly_averaging_applied = TRUE]
       ELSE UNCHANGED <<cl_result, cl_loc>>
    /\ cl_pc' = "averaged"
    /\ UNCHANGED <<cl_df, cl_args, cl_report>>

\* Lines 515-519: the target fill.
CleanFillTarget ==
    /\ UNCHANGED notCl
    /\ cl_pc = "averaged"
    /\ cl_result' = FillTarget(cl_result, cl_loc.target_col)
    /\ cl_pc' = "filled"
    /\ UNCHANGED <<cl_df, cl_args, cl_loc, cl_report>>

ResolvedDriverOutlierActionOfTarget(args) == args.outlier_action

\* driver_outlier_action or outlier_action
ResolvedDriverOutlierAction(args) ==
    IF args.driver_outlier_action = "none"
    THEN args.outlier_action
    ELSE args.driver_outlier_action

\* Lines 521-532: the numeric and the categorical drivers.
CleanDrivers ==
    /\ UNCHANGED notCl
    /\ cl_pc = "filled"
    /\ LET r == CleanNumericDrivers(cl_result, cl_loc.numeric_driver_cols,
                                    ResolvedDriverOutlierAction(cl_args))
       IN  IF ~r.ok
           THEN ClRaise("Unknown action")
           ELSE /\ cl_result' = FillCategorical(r.df, cl_loc.categorical_driver_cols)
                /\ cl_pc' = "drivers"
                /\ UNCHANGED <<cl_df, cl_args, cl_loc, cl_report>>

\* The target's outlier handling (lines 534-535).
TargetOutliers(df, target_col, action) ==
    IF action # "keep"
    THEN HandleOutliers(df, target_col, action)
    ELSE [ok |-> TRUE, df |-> df]

\* Lines 534-558: the target's outliers, the readiness verdict, the report.
CleanFinish ==
    /\ UNCHANGED notCl
    /\ cl_pc = "drivers"
    /\ LET r == TargetOutliers(cl_result, cl_loc.target_col, cl_args.outlier_action)
       IN  IF ~r.ok
           THEN ClRaise("Unknown action")
           ELSE /\ cl_result' = r.df
                /\ cl_pc' = "return"
                /\ cl_report' =
                     [error |-> "none",
                      date_col |-> cl_loc.date_col,
                      target_col |-> cl_loc.target_col,
                      driver_cols |-> cl_loc.driver_cols,
                      driver_outlier_action |-> ResolvedDriverOutlierAction(cl_args),
                      driver_weekly_averaging_applied |->
                          cl_loc.driver_weekly_averaging_applied,
                      rows_removed |-> Len(cl_df) - Len(r.df),
                      cols_removed |->
                          Cardinality(AllColumns) - Cardinality(cl_loc.columns),
                      invalid_dates_removed |-> cl_loc.invalid_dates,
                      target_nan_before |-> cl_loc.target_nan_before,
                      target_nan_after |-> CountNaN(Column(r.df, cl_loc.target_col)),
                      ready |-> ValidateReadyForMl(
                                    r.df, cl_loc.columns,
                                    {cl_loc.target_col}
                                        \cup Range(cl_loc.numeric_driver_cols),
                                    cl_loc.target_col, cl_args.min_rows)]
                /\ UNCHANGED <<cl_df, cl_args, cl_loc>>

NextClean ==
    \/ CleanStart
    \/ CleanParse
    \/ CleanSortDedup
    \/ CleanWeeklyAverage
    \/ CleanFillTarget
    \/ CleanDrivers
    \/ CleanFinish

--------------------------------------------------------------------------
(* Inputs of the cleaning pipeline.                                        *)

MaxCleanRows == 3

CleanRows(D, T, V) == [date : D, target : T, drv : V]

CleanArgs(date_cols, target_cols, driver_lists, actions, driver_actions, flags) ==
    [date_col : date_cols, target_col : target_cols, driver_cols : driver_lists,
     outlier_action : actions, driver_outlier_action : driver_actions,
     average_daily_drivers_to_weekly : flags, min_rows : {MinRows}]

\* Tables with one row per day, in date order, from day 1.
DailyTables(n, T, V) ==
    {[i \in 1..n |-> [date |-> IntV(i), target |-> t[i], drv |-> v[i]]] :
        t \in [1..n -> T], v \in [1..n -> V]}

\* Tables whose date column is out of order, repeats and has gaps.
TargetTables(max_rows) ==
    SeqsUpTo(CleanRows({NaN, IntV(1), IntV(2)},
                       {NaN, Text, IntV(0), IntV(9)},
                       {IntV(0)}),
             max_rows)

\* Daily tables long enough for the IQR rule to find an outlier in the target.
TargetOutlierTables(max_rows) ==
    DailyTables(max_rows + 1, {NaN, PInf, IntV(0), IntV(9)}, {IntV(0)})

ClStart ==
    /\ cl_pc = "start"
    /\ cl_result = <<>>
    /\ cl_loc = NoLocals
    /\ cl_report = NoReport

--------------------------------------------------------------------------
(* build_feature_frame (core/features.py).  A series is a sequence of      *)
(* values over the date index of the cleaned target; row i carries the     *)
(* i-th date.  A frame is a sequence of rows [index, cells], cells a        *)
(* function from column names <<name, lag>> to values.                     *)

\* A shift that moves nothing (a wrong variant, used to test the properties).
ShiftNone(series, lag) == series

\* series.shift(lag): the value lag rows earlier, NaN where there is none.
Shift(series, lag) ==
    [i \in 1..Len(series) |->
        IF (i - lag) \in 1..Len(series) THEN series[i - lag] ELSE NaN]

\* build_lagged_frame / build_driver_lagged_frame for one column: per row, the
\* cells <<prefix, lag>>.
BuildLaggedFrame(series, lags, prefix) ==
    [i \in 1..Len(series) |->
        [c \in {<<prefix, lags[j]>> : j \in 1..Len(lags)} |->
            Shift(series, c[2])[i]]]

\* pd.concat(axis=1) of two blocks over the same index.
ConcatCells(f, g) ==
    [c \in (DOMAIN f) \cup (DOMAIN g) |-> IF c \in DOMAIN g THEN g[c] ELSE f[c]]

\* driver_lags or [1, 2]
DefaultDriverLags == <<1, 2>>

\* The calendar block cell of row i (derived from the index, never missing).
CalendarCell(i) == IntV(i % 4)

BuildFeatureFrame(target_series, drivers_df, calendar_df, lags, driver_lag_cols) ==
    LET n == Len(target_series)
        target_lags == BuildLaggedFrame(target_series, lags, "target_lag")
        has_drivers == drivers_df.present /\ n > 0
        has_calendar == calendar_df /\ n > 0
        driver_lag_frame ==
            BuildLaggedFrame(drivers_df.values, DefaultDriverLags, "drv_lag")
        empty == [c \in {} |-> NaN]
        cells(i) ==
            LET y == [c \in {<<"y", 0>>} |-> target_series[i]]
                drv == IF has_drivers
                       THEN [c \in {<<"drv", 0>>} |-> drivers_df.values[i]]
                       ELSE empty
                dlag == IF has_drivers /\ driver_lag_cols
                        THEN driver_lag_frame[i]
                        ELSE empty
                cal == IF has_calendar
                       THEN [c \in {<<"cal_month", 0>>} |-> CalendarCell(i)]
                       ELSE empty
            IN  ConcatCells(ConcatCells(ConcatCells(
                    ConcatCells(y, target_lags[i]), drv), dlag), cal)
        rows == [i \in 1..n |-> [index |-> i, cells |-> cells(i)]]
        complete == [i \in 1..n |->
                        \A c \in DOMAIN rows[i].cells : ~IsNaN(rows[i].cells[c])]
    IN  FilterIdx(rows, complete, 1)

\* Inputs: targets whose i-th value is i or missing, a driver column with at
\* most one missing cell, ascending lag lists over 1..MaxLag.
MaxSeries == 4
MaxLag == 3

AscendingSeq(S) ==
    [j \in 1..Cardinality(S) |->
        CHOOSE x \in S : Cardinality({y \in S : y <= x}) = j]

LagLists == {AscendingSeq(S) : S \in (SUBSET (1..MaxLag)) \ {{}}}

NoDrivers == [present |-> FALSE, values |-> <<>>]

FeatureArgs(max_series) ==
    UNION {
        {[target_series |-> t, drivers_df |-> d, calendar_df |-> c,
          lags |-> l, driver_lag_cols |-> dl] :
            t \in {[i \in 1..n |-> IF i \in S THEN IntV(i) ELSE NaN] :
                      S \in SUBSET (1..n)},
            d \in {NoDrivers} \cup
                  {[present |-> TRUE,
                    values |-> [i \in 1..n |-> IF i = k THEN NaN ELSE IntV(0)]] :
                      k \in 0..n},
            c \in BOOLEAN, l \in LagLists, dl \in BOOLEAN}
        : n \in 0..max_series}

NoFeatureArgs ==
    [target_series |-> <<>>, drivers_df |-> NoDrivers, calendar_df |-> FALSE,
     lags |-> <<>>, driver_lag_cols |-> FALSE]

FfInit ==
    /\ ff_pc = "call"
    /\ ff_args \in {a \in FeatureArgs(MaxSeries) : a.driver_lag_cols => a.drivers_df.present}
    /\ ff_result = <<>>

FfIdle ==
    /\ ff_pc = "idle"
    /\ ff_args = NoFeatureArgs
    /\ ff_result = <<>>

BuildFeatureFrameCall ==
    /\ ff_pc = "call"
    /\ ff_pc' = "return"
    /\ ff_result' = BuildFeatureFrame(ff_args.target_series, ff_args.drivers_df,
                                      ff_args.calendar_df, ff_args.lags,
                                      ff_args.driver_lag_cols)
    /\ UNCHANGED ff_args
    /\ UNCHANGED notFf

--------------------------------------------------------------------------
(* forecast_future (core/training.py).  Dates are day numbers, day 0 a      *)
(* Monday, so day d is a Sunday iff d % 7 = 6.  The fitted models are      *)
(* abstracted: a prediction is any value of a small set.                   *)

\* pd.date_range(start, periods=horizon, freq="W"): the Sundays on or after
\* start, one per week.
WeeklyRange(start, periods) ==
    LET first == start + ((6 - (start % 7)) % 7)
    IN  [i \in 1..periods |-> first + 7 * (i - 1)]

\* A future index starting at last_date itself (a wrong variant, used to test
\* the properties).
FutureIndexFromLast(last_date, horizon) == WeeklyRange(last_date, horizon)

\* future_index, from last_date + pd.Timedelta(days=7).
FutureIndex(last_date, horizon) == WeeklyRange(last_date + 7, horizon)

\* y_history[-k] for 1 <= k <= len(y_history).
FromEnd(y_history, k) == y_history[Len(y_history) - k + 1]

\* [y_history[-lag] for lag in lags]
LagValues(y_history, lags) ==
    [j \in 1..Len(lags) |-> FromEnd(y_history, lags[j])]

\* The seasonal-naive branch of the loop body.
SeasonalNaiveForecast(y_history, seasonal_period) ==
    IF Len(y_history) >= seasonal_period
    THEN FromEnd(y_history, seasonal_period)
    ELSE FromEnd(y_history, 1)

\* A history fed with the baseline's prediction (a wrong variant, used to test
\* the properties).
NextHistoryBaseline(y_history, base_pred, multi_pred) ==
    Append(y_history, base_pred)

\* y_history.append(multi_pred)
NextHistory(y_history, base_pred, multi_pred) ==
    Append(y_history, multi_pred)

MaxOf(lags) == CHOOSE x \in Range(lags) : \A y \in Range(lags) : y <= x

MaxObserved == 3
MaxHorizon == 3

\* base_model.predict(...) and model.predict(...)
BasePredictions == {IntV(0), IntV(1)}
MultiPredictions == {IntV(1), IntV(2)}
SeasonalPeriods == {2, 52}

ForecastArgs ==
    {[observed |-> [i \in 1..n |-> IntV(10 + i)], last_date |-> d,
      lags |-> l, horizon |-> h, baseline_model |-> b, seasonal_period |-> p] :
        n \in 1..MaxObserved, d \in {14, 17, 20}, l \in LagLists,
        h \in 1..MaxHorizon, b \in {"lagged_ridge", "seasonal_naive"},
        p \in SeasonalPeriods}

NoForecastArgs ==
    [observed |-> <<>>, last_date |-> 0, lags |-> <<>>, horizon |-> 0,
     baseline_model |-> "", seasonal_period |-> 0]

NoForecastLocals ==
    [future_index |-> <<>>, y_history |-> <<>>, baseline_forecasts |-> <<>>,
     multi_forecasts |-> <<>>, base_features |-> <<>>, multi_lags |-> <<>>]

FcInit ==
    /\ fc_pc = "start"
    /\ fc_args \in {a \in ForecastArgs :
                       a.baseline_model = "lagged_ridge" => a.seasonal_period = 52}
    /\ fc_loc = NoForecastLocals

FcIdle ==
    /\ fc_pc = "idle"
    /\ fc_args = NoForecastArgs
    /\ fc_loc = NoForecastLocals

\* Up to the loop: the future index, the fits and the seeding of y_history.
\* The frame has a row only for a target longer than the largest lag; fitting
\* on an empty frame raises.
ForecastStart ==
    /\ fc_pc = "start"
    /\ IF Len(fc_args.observed) <= MaxOf(fc_args.lags)
       THEN /\ fc_pc' = "raise"
            /\ UNCHANGED fc_loc
       ELSE /\ fc_pc' = "loop"
            /\ fc_loc' = [NoForecastLocals EXCEPT
                   !.future_index = FutureIndex(fc_args.last_date, fc_args.horizon),
                   !.y_history = fc_args.observed]
    /\ UNCHANGED fc_args
    /\ UNCHANGED notFc

\* One iteration of "for idx in future_index".
ForecastStep ==
    /\ fc_pc = "loop"
    /\ Len(fc_loc.multi_forecasts) < Len(fc_loc.future_index)
    /\ LET lag_values == LagValues(fc_loc.y_history, fc_args.lags)
       IN  \E ridge_pred \in BasePredictions, multi_pred \in MultiPredictions :
             LET base_pred ==
                     IF fc_args.baseline_model = "seasonal_naive"
                     THEN SeasonalNaiveForecast(fc_loc.y_history,
                                                fc_args.seasonal_period)
                     ELSE ridge_pred
             IN  fc_loc' = [fc_loc EXCEPT
                     !.base_features = lag_values,
                     !.multi_lags = LagValues(fc_loc.y_history, fc_args.lags),
                     !.baseline_forecasts = Append(@, base_pred),
                     !.multi_forecasts = Append(@, multi_pred),
                     !.y_history = NextHistory(@, base_pred, multi_pred)]
    /\ UNCHANGED <<fc_pc, fc_args>>
    /\ UNCHANGED notFc

\* The loop is exhausted: the frame of week_ending, baseline_forecast and
\* multivariate_forecast is returned.
ForecastReturn ==
    /\ fc_pc = "loop"
    /\ Len(fc_loc.multi_forecasts) = Len(fc_loc.future_index)
    /\ fc_pc' = "return"
    /\ UNCHANGED <<fc_args, fc_loc>>
    /\ UNCHANGED notFc

NextForecast == ForecastStart \/ ForecastStep \/ ForecastReturn

--------------------------------------------------------------------------
(* parse_test_size (core/metrics.py).                                      *)

\* parse_test_size.  A test_size value is an int, a float or a string; its
\* numeric value is held in eighths (exact in binary floating point), a
\* string either spells a number (with or without a decimal point) or no
\* number at all.
Eighths == 8

IntTestSize(weeks) ==
    [type |-> "int", eighths |-> weeks * Eighths, numeric |-> TRUE, decimal |-> FALSE]
FloatTestSize(eighths) ==
    [type |-> "float", eighths |-> eighths, numeric |-> TRUE, decimal |-> TRUE]
StrTestSize(eighths, decimal) ==
    [type |-> "str", eighths |-> eighths, numeric |-> TRUE, decimal |-> decimal]
TextTestSize ==
    [type |-> "str", eighths |-> 0, numeric |-> FALSE, decimal |-> FALSE]

\* 0 < value < 1
IsFraction(value) == 0 < value.eighths /\ value.eighths < Eighths

\* round(num / den) of Python 3 for num >= 0: ties go to the even integer.
RoundHalfEven(num, den) ==
    LET q == num \div den
        r == num % den
    IN  IF 2 * r < den THEN q
        ELSE IF 2 * r > den THEN q + 1
        ELSE IF q % 2 = 0 THEN q ELSE q + 1

\* int(num / den): truncation towards zero.
IntOf(num, den) ==
    IF num >= 0 THEN num \div den ELSE -((-num) \div den)

\* max(1, int(round(n_rows * value)))
FractionOfRows(value, n_rows) ==
    Max2(1, RoundHalfEven(n_rows * value.eighths, Eighths))

\* max(1, min(weeks, n_rows - 1))
ClampedWeeks(value, n_rows) ==
    Max2(1, Min2(IntOf(value.eighths, Eighths), n_rows - 1))

\* parse_test_size(value, n_rows): float(value) of a string succeeds when
\* it spells a number, int(value) only when it spells one without a
\* decimal point.
ParseTestSize(value, n_rows) ==
    IF value.type \in {"int", "float"}
    THEN IF value.type = "float" /\ IsFraction(value)
         THEN [ok |-> TRUE, test_len |-> FractionOfRows(value, n_rows)]
         ELSE [ok |-> TRUE, test_len |-> ClampedWeeks(value, n_rows)]
    ELSE IF value.numeric /\ IsFraction(value)
    THEN [ok |-> TRUE, test_len |-> FractionOfRows(value, n_rows)]
    ELSE IF value.numeric /\ ~value.decimal
    THEN [ok |-> TRUE, test_len |-> ClampedWeeks(value, n_rows)]
    ELSE [ok |-> FALSE, test_len |-> 0]

--------------------------------------------------------------------------
(* walk_forward_rmse and its call from evaluate_split / evaluate_metrics   *)
(* (core/evaluation.py).  Frame rows are numbered from 0 as iloc numbers   *)
(* them; only the rows that get a prediction matter here.                  *)

Max3(a, b, c) == Max2(a, Max2(b, c))

\* A minimum training window without the floors of 20 and 8 (a wrong variant,
\* used to test the properties).
MinTrainSizeNoFloor(lags) == MaxOf(lags) + 2

\* min_train_size = max(20, max(lags) + 2, 8)
MinTrainSize(lags) == Max3(20, MaxOf(lags) + 2, 8)

MaxFrameLen == 24

WalkLagLists == {<<1, 2, 4>>, <<1, 2, 3, 4>>, <<1, 3, 6>>, <<1, 20>>}
WalkSeasonalPeriods == {2, 22, 52}

WalkTestSizes == {1, 3}

WalkArgs ==
    {[frame_len |-> n, lags |-> l, baseline_model |-> b, seasonal_period |-> p,
      caller |-> c, test_size |-> t] :
        n \in 0..MaxFrameLen, l \in WalkLagLists,
        b \in {"lagged_ridge", "seasonal_naive"}, p \in WalkSeasonalPeriods,
        c \in {"evaluate_split", "evaluate_metrics"}, t \in WalkTestSizes}

NoWalkArgs ==
    [frame_len |-> 0, lags |-> <<>>, baseline_model |-> "", seasonal_period |-> 0,
     caller |-> "", test_size |-> 0]

\* The single split of evaluate_split / evaluate_metrics, as frame rows:
\* train and test, and the rows behind y_test, y_pred_base and y_pred_multi.
NoSplit ==
    [train |-> <<>>, test |-> <<>>, y_test |-> <<>>, y_pred_base |-> <<>>,
     y_pred_multi |-> <<>>]

\* i: the loop variable; rows: the frame rows appended to actuals; preds_base
\* and preds_multi: the frame rows whose predictions were appended to these
\* lists; fits: one record per model.fit call of the loop.
NoWalkLocals ==
    [min_train_size |-> 0, i |-> 0, rows |-> <<>>, preds_base |-> <<>>,
     preds_multi |-> <<>>, fits |-> <<>>, split |-> NoSplit]

WfInit ==
    /\ wf_pc = "start"
    /\ wf_args \in {a \in WalkArgs :
                       a.baseline_model = "lagged_ridge" => a.seasonal_period = 52}
    /\ wf_loc = NoWalkLocals

WfIdle ==
    /\ wf_pc = "idle"
    /\ wf_args = NoWalkArgs
    /\ wf_loc = NoWalkLocals

\* frame.iloc[a:b] as frame rows (numbered from 0), for 0 <= a.
Rows(a, b) == [j \in 1..(IF b > a THEN b - a ELSE 0) |-> a + j - 1]

\* seasonal_naive_pred(frame["y"], seasonal_period) at row r: y.shift(period)
\* holds y[r - period] there, and a missing value without such a row.
SeasonalNaiveMissing(r, seasonal_period) == r - seasonal_period < 0

\* base_mask = ~y_pred_base.isna() over the test rows.
BaseMask(test, seasonal_period) ==
    [j \in 1..Len(test) |-> ~SeasonalNaiveMissing(test[j], seasonal_period)]

XTestUnmasked(x_test, base_mask) == x_test

\* x_test[base_mask.to_numpy()]
XTest(x_test, base_mask) == FilterIdx(x_test, base_mask, 1)

\* The single split: test_len = parse_test_size(test_size, len(frame)),
\* train = frame.iloc[:-test_len], test = frame.iloc[-test_len:], and the
\* seasonal-naive mask over y_pred_base, y_test and x_test.
EvaluateSplitRows(args) ==
    LET n == args.frame_len
        test_len == ParseTestSize(IntTestSize(args.test_size), n).test_len
        first == IF n - test_len > 0 THEN n - test_len ELSE 0
        train == Rows(0, first)
        test == Rows(first, n)
        base_mask == BaseMask(test, args.seasonal_period)
    IN  IF args.baseline_model = "seasonal_naive"
        THEN [train |-> train, test |-> test,
              y_test |-> FilterIdx(test, base_mask, 1),
              y_pred_base |-> FilterIdx(test, base_mask, 1),
              y_pred_multi |-> XTest(test, base_mask)]
        ELSE [train |-> train, test |-> test, y_test |-> test,
              y_pred_base |-> test, y_pred_multi |-> test]

\* evaluate_split / evaluate_metrics score the single split, compute
\* min_train_size and call walk_forward_rmse, whose loop starts at
\* range(min_train_size, len(frame)).
EvaluateCallsWalkForward ==
    /\ wf_pc = "start"
    /\ wf_pc' = "loop"
    /\ wf_loc' = [min_train_size |-> MinTrainSize(wf_args.lags),
                  i |-> MinTrainSize(wf_args.lags),
                  rows |-> <<>>, preds_base |-> <<>>, preds_multi |-> <<>>,
                  fits |-> <<>>, split |-> EvaluateSplitRows(wf_args)]
    /\ UNCHANGED wf_args
    /\ UNCHANGED notWf

SeasonalWarmup(args, i) ==
    args.baseline_model = "seasonal_naive" /\ i - args.seasonal_period < 0

WalkFitsThroughRow(args, i) ==
    LET fit(model) == [model |-> model, train |-> Rows(0, i + 1),
                       test |-> Rows(i, i + 1), source |-> <<>>]
    IN  IF args.baseline_model = "seasonal_naive"
        THEN <<[model |-> "seasonal_naive", train |-> <<>>, test |-> Rows(i, i + 1),
                source |-> <<i - args.seasonal_period>>],
               fit("multi")>>
        ELSE <<fit("ridge"), fit("multi")>>

\* The fits and predictions of iteration i: train = frame.iloc[:i] and
\* test = frame.iloc[i:i+1] for each fitted model; the seasonal-naive
\* baseline is not fitted and reads frame["y"].iloc[i - seasonal_period].
WalkFits(args, i) ==
    LET fit(model) == [model |-> model, train |-> Rows(0, i), test |-> Rows(i, i + 1),
                       source |-> <<>>]
    IN  IF args.baseline_model = "seasonal_naive"
        THEN <<[model |-> "seasonal_naive", train |-> <<>>, test |-> Rows(i, i + 1),
                source |-> <<i - args.seasonal_period>>],
               fit("multi")>>
        ELSE <<fit("ridge"), fit("multi")>>

\* An iteration that fits, predicts row i and appends to the three lists.
WalkPredict ==
    /\ wf_pc = "loop"
    /\ wf_loc.i < wf_args.frame_len
    /\ ~SeasonalWarmup(wf_args, wf_loc.i)
    /\ wf_loc' = [wf_loc EXCEPT !.rows = Append(@, wf_loc.i),
                                !.preds_base = Append(@, wf_loc.i),
                                !.preds_multi = Append(@, wf_loc.i),
                                !.fits = @ \o WalkFits(wf_args, wf_loc.i),
                                !.i = @ + 1]
    /\ UNCHANGED <<wf_pc, wf_args>>
    /\ UNCHANGED notWf

\* An iteration of the seasonal-naive baseline that has no row i - period:
\* "continue".
WalkSkip ==
    /\ wf_pc = "loop"
    /\ wf_loc.i < wf_args.frame_len
    /\ SeasonalWarmup(wf_args, wf_loc.i)
    /\ wf_loc' = [wf_loc EXCEPT !.i = @ + 1]
    /\ UNCHANGED <<wf_pc, wf_args>>
    /\ UNCHANGED notWf

\* After the loop: rmse over the collected lists; mean_squared_error raises
\* on lists without an element.
WalkFinish ==
    /\ wf_pc = "loop"
    /\ wf_loc.i >= wf_args.frame_len
    /\ wf_pc' = IF wf_loc.rows = <<>> THEN "raise" ELSE "return"
    /\ UNCHANGED <<wf_args, wf_loc>>
    /\ UNCHANGED notWf

NextWalk == EvaluateCallsWalkForward \/ WalkPredict \/ WalkSkip \/ WalkFinish

--------------------------------------------------------------------------
(* select_lags (core/training.py) over grid_search_lags                    *)
(* (core/grid_search.py).  The metrics evaluate_metrics returns for a      *)
(* candidate are abstracted to two small integers.                         *)

MaxMetric == 3

\* candidate_sets = lag_candidates or [[1, 2, 4], [1, 2, 3, 4], [1, 3, 6]]
DefaultCandidates == <<(<<1, 2, 4>>), (<<1, 2, 3, 4>>), (<<1, 3, 6>>)>>

\* sorted(results, key=...): stable insertion of one item.
InsertByKey(sorted, item, key) ==
    LET after == {j \in 1..Len(sorted) : sorted[j][key] <= item[key]}
        k == IF after = {} THEN 0
             ELSE CHOOSE j \in after : \A m \in after : m <= j
    IN  SubSeq(sorted, 1, k) \o <<item>> \o SubSeq(sorted, k + 1, Len(sorted))

RECURSIVE SortedByKey(_, _)
SortedByKey(results, key) ==
    IF results = <<>> THEN <<>>
    ELSE InsertByKey(SortedByKey(SubSeq(results, 1, Len(results) - 1), key),
                     results[Len(results)], key)

\* return sorted(results, key=lambda item: item["wf_rmse_multi"])
GridSearchOrder(results, validation_mode) ==
    SortedByKey(results, "wf_rmse_multi")

\* metric_key = "wf_rmse_multi" if validation_mode == "walk_forward" else "rmse_multi"
MetricKey(validation_mode) ==
    IF validation_mode = "walk_forward" THEN "wf_rmse_multi" ELSE "rmse_multi"

\* min(results, key=...): the first item of least key.
MinByKey(results, key) ==
    LET k == CHOOSE j \in 1..Len(results) :
                 /\ \A m \in 1..Len(results) : results[j][key] <= results[m][key]
                 /\ \A m \in 1..(j - 1) : results[m][key] > results[j][key]
    IN  results[k]

LagSearchArgs ==
    {[lag_config |-> l, auto_select |-> a, validation_mode |-> v,
      candidate_sets |-> DefaultCandidates] :
        l \in {<<1, 2, 4>>, <<1>>}, a \in BOOLEAN,
        v \in {"walk_forward", "single_split"}}

NoLagSearchArgs ==
    [lag_config |-> <<>>, auto_select |-> FALSE, validation_mode |-> "",
     candidate_sets |-> <<>>]

\* results: the list grid_search_lags builds and returns; lags and metric: what
\* select_lags returns (metric "none" for a None lag_search).
NoLagSearchLocals == [results |-> <<>>, lags |-> <<>>, metric |-> "none"]

LsInit ==
    /\ ls_pc = "start"
    /\ ls_args \in LagSearchArgs
    /\ ls_loc = NoLagSearchLocals

LsIdle ==
    /\ ls_pc = "idle"
    /\ ls_args = NoLagSearchArgs
    /\ ls_loc = NoLagSearchLocals

\* if not auto_select: return lags, None
SelectLagsManual ==
    /\ ls_pc = "start"
    /\ ~ls_args.auto_select
    /\ ls_pc' = "return"
    /\ ls_loc' = [ls_loc EXCEPT !.lags = ls_args.lag_config]
    /\ UNCHANGED ls_args
    /\ UNCHANGED notLs

\* select_lags enters grid_search_lags.
SelectLagsAuto ==
    /\ ls_pc = "start"
    /\ ls_args.auto_select
    /\ ls_pc' = "grid"
    /\ UNCHANGED <<ls_args, ls_loc>>
    /\ UNCHANGED notLs

\* One iteration of "for lag_set in lag_sets": the frame is built and
\* evaluated, the metrics are appended.
GridEvaluate ==
    /\ ls_pc = "grid"
    /\ Len(ls_loc.results) < Len(ls_args.candidate_sets)
    /\ \E wf \in 1..MaxMetric, holdout \in 1..MaxMetric :
           ls_loc' = [ls_loc EXCEPT !.results =
               Append(@, [lags |-> ls_args.candidate_sets[Len(@) + 1],
                          wf_rmse_multi |-> wf, rmse_multi |-> holdout])]
    /\ UNCHANGED <<ls_pc, ls_args>>
    /\ UNCHANGED notLs

\* evaluate_metrics raises for a candidate (a frame too short to fit or to
\* backtest): the search and select_lags end with the exception.
GridEvaluateRaises ==
    /\ ls_pc = "grid"
    /\ Len(ls_loc.results) < Len(ls_args.candidate_sets)
    /\ ls_pc' = "raise"
    /\ UNCHANGED <<ls_args, ls_loc>>
    /\ UNCHANGED notLs

\* grid_search_lags returns the sorted list.
GridSearchReturn ==
    /\ ls_pc = "grid"
    /\ Len(ls_loc.results) = Len(ls_args.candidate_sets)
    /\ ls_pc' = "searched"
    /\ ls_loc' = [ls_loc EXCEPT !.results =
                      GridSearchOrder(@, ls_args.validation_mode)]
    /\ UNCHANGED ls_args
    /\ UNCHANGED notLs

\* select_lags picks the best result by the metric of the validation mode.
SelectLagsBest ==
    /\ ls_pc = "searched"
    /\ ls_pc' = "return"
    /\ ls_loc' =
           IF ls_loc.results = <<>>
           THEN [ls_loc EXCEPT !.lags = ls_args.lag_config]
           ELSE [ls_loc EXCEPT
                    !.lags = MinByKey(ls_loc.results,
                                      MetricKey(ls_args.validation_mode)).lags,
                    !.metric = MetricKey(ls_args.validation_mode)]
    /\ UNCHANGED ls_args
    /\ UNCHANGED notLs

NextLagSearch ==
    \/ SelectLagsManual
    \/ SelectLagsAuto
    \/ GridEvaluate
    \/ GridEvaluateRaises
    \/ GridSearchReturn
    \/ SelectLagsBest

--------------------------------------------------------------------------
(* The /upload, /upload-drivers, /process and /train handlers              *)
(* (api/endpoints.py) for one project.  A stored table is abstracted to    *)
(* its column labels, split into the columns that parse as dates and the   *)
(* numeric ones, and to whether it cleans to at least min_rows usable      *)
(* rows (ready).                                                           *)

NoTable == [present |-> FALSE, date_cols |-> {}, numeric_cols |-> {}, ready |-> FALSE]

Table(date_cols, numeric_cols, ready) ==
    [present |-> TRUE, date_cols |-> date_cols, numeric_cols |-> numeric_cols,
     ready |-> ready]

ColumnsOf(table) == table.date_cols \cup table.numeric_cols

\* str.lower() on the labels in use.
Lower(name) ==
    CASE name = "Date" -> "date"
      [] name = "Target" -> "target"
      [] name = "Driver A" -> "driver a"
      [] name = "Driver Date" -> "driver date"
      [] OTHER -> name

\* _normalize_column_name on the labels in use (the same normalisation is
\* spelled out inside _resolve_df_column).
NormalizeColumnName(name) ==
    CASE Lower(name) = "driver a" -> "driver_a"
      [] Lower(name) = "driver date" -> "driver_date"
      [] OTHER -> Lower(name)

\* _resolve_df_column: exact, then case-insensitive, then normalised match;
\* ok = FALSE is the HTTPException(400).
ResolveDfColumn(columns, requested) ==
    IF requested \in columns THEN [ok |-> TRUE, col |-> requested]
    ELSE IF \E c \in columns : Lower(c) = Lower(requested)
    THEN [ok |-> TRUE, col |-> CHOOSE c \in columns : Lower(c) = Lower(requested)]
    ELSE IF \E c \in columns : NormalizeColumnName(c) = NormalizeColumnName(requested)
    THEN [ok |-> TRUE,
          col |-> CHOOSE c \in columns :
                      NormalizeColumnName(c) = NormalizeColumnName(requested)]
    ELSE [ok |-> FALSE, col |-> ""]

\* clean_dataframe_for_training as the handlers see it: the labels are
\* normalised, the date and target labels must resolve (ok = FALSE is the
\* ValueError), the report carries their clean names and the readiness.
CleanedTable(table, date_col, target_col) ==
    LET columns == {NormalizeColumnName(c) : c \in ColumnsOf(table)}
        date_ok == date_col \in ColumnsOf(table) \cup columns
                       \/ NormalizeColumnName(date_col) \in columns
        target_ok == target_col \in ColumnsOf(table) \cup columns
                       \/ NormalizeColumnName(target_col) \in columns
    IN  [ok |-> date_ok /\ target_ok,
         columns |-> columns,
         date_col |-> NormalizeColumnName(date_col),
         target_col |-> NormalizeColumnName(target_col),
         ready |-> table.ready]

\* detect_date_column: a column that parses as dates, None ("") without one.
DetectDateColumn(table) ==
    IF table.date_cols = {} THEN "" ELSE CHOOSE c \in table.date_cols : TRUE

NormalizeStrategyDefaulting(strategy) ==
    CASE strategy = "clip" -> "cap"
      [] strategy = "none" -> "keep"
      [] strategy \in {"keep", "remove", "cap"} -> strategy
      [] OTHER -> "keep"

\* {"clip": "cap", "none": "keep"}.get(strategy, strategy)
NormalizeStrategy(strategy) ==
    CASE strategy = "clip" -> "cap"
      [] strategy = "none" -> "keep"
      [] OTHER -> strategy

ValidStrategy(strategy) == NormalizeStrategy(strategy) \in {"keep", "remove", "cap"}

NoCall == [made |-> FALSE, returned |-> FALSE, drivers |-> <<>>, columns |-> {}]
NoTrainRequest ==
    [date_col |-> "", target_col |-> "", drivers |-> <<>>,
     driver_outlier_strategy |-> ""]

\* The outlier strategies of a request ("" where the request has no such
\* field) and the outlier actions of a clean_dataframe_for_training call.
NoStrategies == [outlier_strategy |-> "", driver_outlier_strategy |-> ""]
NoCleanCall == [made |-> FALSE, outlier_action |-> "", driver_outlier_action |-> ""]

Response(op, status) ==
    [op |-> op, status |-> status, req |-> NoTrainRequest, call |-> NoCall,
     asked |-> NoStrategies, clean |-> NoCleanCall]

\* clean_dataframe_for_training(..., outlier_action, driver_outlier_action)
CleanCall(outlier_action, driver_outlier_action) ==
    [made |-> TRUE, outlier_action |-> outlier_action,
     driver_outlier_action |-> driver_outlier_action]

ProcessResponse(req, status, clean) ==
    [op |-> "process", status |-> status, req |-> NoTrainRequest, call |-> NoCall,
     asked |-> [outlier_strategy |-> req.outlier_strategy,
                driver_outlier_strategy |-> req.driver_outlier_strategy],
     clean |-> clean]

MainTables ==
    {Table({"Date"}, n, r) : n \in {{"Target"}, {"Target", "Driver A"}},
                             r \in BOOLEAN}

DriverFiles ==
    {Table(d, {"Driver A"}, TRUE) : d \in {{"Driver Date"}, {"Date"}, {}}}

ProcessRequests ==
    {[date_col |-> d, target_col |-> "Target", outlier_strategy |-> o,
      driver_outlier_strategy |-> do] :
        d \in {"Date", "When"}, o \in {"cap", "clip", "none", "trim"},
        do \in {"keep", "none", "trim"}}

TrainRequests ==
    {[date_col |-> "Date", target_col |-> "Target", drivers |-> ds,
      driver_outlier_strategy |-> o] :
        ds \in {<<>>, <<"Driver A">>, <<"Driver B">>},
        o \in {"keep", "clip", "trim"}}

ApiInit ==
    /\ api_dataframes = NoTable
    /\ api_driver_dataframes = NoTable
    /\ api_processed_dataframes = NoTable
    /\ api_processed_driver_dataframes = NoTable
    /\ api_response = Response("none", 0)

ApiIdle == ApiInit

\* POST /upload
UploadFile ==
    /\ \E df \in MainTables : api_dataframes' = df
    /\ api_response' = Response("upload", 200)
    /\ UNCHANGED <<api_driver_dataframes, api_processed_dataframes,
                   api_processed_driver_dataframes>>
    /\ UNCHANGED notApi

\* POST /upload-drivers
UploadDriverFile ==
    /\ \E df \in DriverFiles : api_driver_dataframes' = df
    /\ api_response' = Response("upload-drivers", 200)
    /\ UNCHANGED <<api_dataframes, api_processed_dataframes,
                   api_processed_driver_dataframes>>
    /\ UNCHANGED notApi

\* The processed driver table of /process: the driver file's numeric columns
\* under the target's clean date label, when the file has a date column.
ProcessedDrivers(driver_table, date_col) ==
    IF /\ driver_table.present
       /\ DetectDateColumn(driver_table) # ""
       /\ driver_table.numeric_cols # {}
    THEN Table({date_col}, driver_table.numeric_cols, TRUE)
    ELSE NoTable

\* POST /process
ProcessData ==
    \E req \in ProcessRequests :
        LET cleaned == CleanedTable(api_dataframes, req.date_col, req.target_col)
            clean == CleanCall(NormalizeStrategy(req.outlier_strategy),
                               NormalizeStrategy(req.driver_outlier_strategy))
        IN  IF ~api_dataframes.present
            THEN /\ api_response' = ProcessResponse(req, 404, NoCleanCall)
                 /\ UNCHANGED apiStores
                 /\ UNCHANGED notApi
            ELSE IF \/ ~ValidStrategy(req.outlier_strategy)
                    \/ ~ValidStrategy(req.driver_outlier_strategy)
            THEN /\ api_response' = ProcessResponse(req, 400, NoCleanCall)
                 /\ api_processed_driver_dataframes' = NoTable
                 /\ UNCHANGED <<api_dataframes, api_driver_dataframes,
                                api_processed_dataframes>>
                 /\ UNCHANGED notApi
            ELSE IF ~cleaned.ok \/ ~cleaned.ready
            THEN /\ api_response' = ProcessResponse(req, 400, clean)
                 /\ api_processed_driver_dataframes' = NoTable
                 /\ UNCHANGED <<api_dataframes, api_driver_dataframes,
                                api_processed_dataframes>>
                 /\ UNCHANGED notApi
            ELSE /\ api_response' = ProcessResponse(req, 200, clean)
                 /\ api_processed_dataframes' =
                        Table({cleaned.date_col}, {cleaned.target_col}, TRUE)
                 /\ api_processed_driver_dataframes' =
                        ProcessedDrivers(api_driver_dataframes, cleaned.date_col)
                 /\ UNCHANGED <<api_dataframes, api_driver_dataframes>>
                 /\ UNCHANGED notApi

\* A /train that always cleans the uploaded table (a wrong variant, used to
\* test the properties).
TrainingTableFromUpload(req) ==
    LET cleaned == CleanedTable(api_dataframes, req.date_col, req.target_col)
    IN  [ok |-> cleaned.ok /\ cleaned.ready, columns |-> cleaned.columns,
         date_col |-> cleaned.date_col, target_col |-> cleaned.target_col]

\* The table and labels /train starts from: the processed table when there
\* is one, else the uploaded table cleaned on the spot.
TrainingTable(req) ==
    IF api_processed_dataframes.present
    THEN LET columns == ColumnsOf(api_processed_dataframes)
             d == ResolveDfColumn(columns, req.date_col)
             t == ResolveDfColumn(columns, req.target_col)
         IN  [ok |-> d.ok /\ t.ok, columns |-> columns,
              date_col |-> d.col, target_col |-> t.col]
    ELSE LET cleaned == CleanedTable(api_dataframes, req.date_col, req.target_col)
         IN  [ok |-> cleaned.ok /\ cleaned.ready, columns |-> cleaned.columns,
              date_col |-> cleaned.date_col, target_col |-> cleaned.target_col]

\* resolved_driver_cols, deduplicated in order.
RECURSIVE AvailableDriverCols(_, _, _)
AvailableDriverCols(selected_drivers, columns, seen) ==
    IF selected_drivers = <<>> THEN <<>>
    ELSE LET r == ResolveDfColumn(columns, selected_drivers[1])
         IN  IF r.ok /\ r.col \notin seen
             THEN <<r.col>> \o AvailableDriverCols(Tail(selected_drivers), columns,
                                                   seen \cup {r.col})
             ELSE AvailableDriverCols(Tail(selected_drivers), columns, seen)

\* The merge of the processed driver table into the training table: the
\* columns of df and selected_drivers after it.
MergeDrivers(base, req) ==
    IF req.drivers # <<>> /\ api_processed_driver_dataframes.present
    THEN LET columns == ColumnsOf(api_processed_driver_dataframes)
             available == AvailableDriverCols(req.drivers, columns, {})
             driver_date_col == ResolveDfColumn(columns, base.date_col)
         IN  IF available # <<>> /\ driver_date_col.ok
             THEN [columns |-> base.columns \cup Range(available),
                   drivers |-> available]
             ELSE [columns |-> base.columns, drivers |-> <<>>]
    ELSE [columns |-> base.columns, drivers |-> req.drivers]

TrainResponse(req, status, call, clean) ==
    [op |-> "train", status |-> status, req |-> req, call |-> call,
     asked |-> [outlier_strategy |-> "",
                driver_outlier_strategy |-> req.driver_outlier_strategy],
     clean |-> clean]

\* outlier_action: str = "cap" of clean_dataframe_for_training
DefaultOutlierAction == "cap"

\* POST /train.  train_and_forecast is called with the merged table and
\* selected_drivers; it returns (200) or raises (500).
TrainModel ==
    /\ \E req \in TrainRequests, returned \in BOOLEAN :
        LET base == TrainingTable(req)
            merged == MergeDrivers(base, req)
            clean == IF api_processed_dataframes.present THEN NoCleanCall
                     ELSE CleanCall(DefaultOutlierAction,
                                    NormalizeStrategy(req.driver_outlier_strategy))
        IN  api_response' =
                IF ~api_dataframes.present /\ ~api_processed_dataframes.present
                THEN TrainResponse(req, 404, NoCall, NoCleanCall)
                ELSE IF ~ValidStrategy(req.driver_outlier_strategy)
                THEN TrainResponse(req, 400, NoCall, NoCleanCall)
                ELSE IF ~base.ok
                THEN TrainResponse(req, 400, NoCall, clean)
                ELSE TrainResponse(req, IF returned THEN 200 ELSE 500,
                                   [made |-> TRUE, returned |-> returned,
                                    drivers |-> merged.drivers,
                                    columns |-> merged.columns],
                                   clean)
    /\ UNCHANGED apiStores
    /\ UNCHANGED notApi

NextApi == UploadFile \/ UploadDriverFile \/ ProcessData \/ TrainModel

--------------------------------------------------------------------------
(* The column resolver (core/preprocessing.py): _normalize_column_name,    *)
(* _build_column_mapping, _resolve_column_name and the first lines of      *)
(* clean_dataframe_for_training that use them.  A label is a sequence of   *)
(* one-character strings; "#" stands for any character that is neither a   *)
(* letter, a digit, a blank, an underscore nor "%", such as a currency     *)
(* sign.                                                                   *)

\* str.lower() on one character.
LowerChar(c) ==
    CASE c = "S" -> "s"
      [] c = "D" -> "d"
      [] OTHER -> c

LowerStr(s) == [i \in 1..Len(s) |-> LowerChar(s[i])]

\* str.strip(chars) on both ends.
RECURSIVE LStrip(_, _)
LStrip(s, chars) ==
    IF s # <<>> /\ s[1] \in chars THEN LStrip(Tail(s), chars) ELSE s

RECURSIVE RStrip(_, _)
RStrip(s, chars) ==
    IF s # <<>> /\ s[Len(s)] \in chars
    THEN RStrip(SubSeq(s, 1, Len(s) - 1), chars)
    ELSE s

Strip(s, chars) == RStrip(LStrip(s, chars), chars)

\* normalized.replace("%", " pct ")
RECURSIVE ReplacePct(_)
ReplacePct(s) ==
    IF s = <<>> THEN <<>>
    ELSE (IF s[1] = "%" THEN <<" ", "p", "c", "t", " ">> ELSE <<s[1]>>)
             \o ReplacePct(Tail(s))

\* The class [a-z0-9] over the characters in use.
IsAlnum(c) == c \in {"s", "d", "p", "c", "t", "o", "l", "u", "m", "n",
                     "0", "1", "2", "3", "4", "5", "6", "7", "8", "9"}

\* re.sub(r"[^a-z0-9]+", "_", s): every run outside the class becomes one "_".
RECURSIVE SubNonAlnum(_, _)
SubNonAlnum(s, in_run) ==
    IF s = <<>> THEN <<>>
    ELSE IF IsAlnum(s[1]) THEN <<s[1]>> \o SubNonAlnum(Tail(s), FALSE)
    ELSE IF in_run THEN SubNonAlnum(Tail(s), TRUE)
    ELSE <<"_">> \o SubNonAlnum(Tail(s), TRUE)

\* re.sub(r"_+", "_", s)
RECURSIVE SubUnderscores(_, _)
SubUnderscores(s, in_run) ==
    IF s = <<>> THEN <<>>
    ELSE IF s[1] # "_" THEN <<s[1]>> \o SubUnderscores(Tail(s), FALSE)
    ELSE IF in_run THEN SubUnderscores(Tail(s), TRUE)
    ELSE <<"_">> \o SubUnderscores(Tail(s), TRUE)

\* _normalize_column_name on a label.
NormalizeLabel(column_name) ==
    LET lowered == LowerStr(Strip(column_name, {" "}))
        replaced == ReplacePct(lowered)
        normalized == Strip(SubUnderscores(SubNonAlnum(replaced, FALSE), FALSE), {"_"})
    IN  IF normalized = <<>> THEN <<"c", "o", "l", "u", "m", "n">> ELSE normalized

\* str(idx) for an index of the suffix loop.
Digit(d) ==
    CASE d = 0 -> "0" [] d = 1 -> "1" [] d = 2 -> "2" [] d = 3 -> "3" [] d = 4 -> "4"
      [] d = 5 -> "5" [] d = 6 -> "6" [] d = 7 -> "7" [] d = 8 -> "8" [] OTHER -> "9"

RECURSIVE Str(_)
Str(n) == IF n < 10 THEN <<Digit(n)>> ELSE Str(n \div 10) \o <<Digit(n % 10)>>

\* The while loop of _build_column_mapping: the first of base, base_2,
\* base_3, ... that is not in used.
RECURSIVE Candidate(_, _, _, _)
Candidate(base, candidate, idx, used) ==
    IF candidate \in used
    THEN Candidate(base, base \o <<"_">> \o Str(idx), idx + 1, used)
    ELSE candidate

\* The for loop of _build_column_mapping from column k on; mapping is the dict
\* (a function on the labels seen so far), used the set of keys given out.
RECURSIVE BuildColumnMappingFrom(_, _, _, _)
BuildColumnMappingFrom(columns, k, mapping, used) ==
    IF k > Len(columns) THEN mapping
    ELSE LET original == columns[k]
             base == NormalizeLabel(original)
             candidate == Candidate(base, base, 2, used)
         IN  BuildColumnMappingFrom(
                 columns, k + 1,
                 [l \in DOMAIN mapping \cup {original} |->
                     IF l = original THEN candidate ELSE mapping[l]],
                 used \cup {candidate})

BuildColumnMapping(columns) == BuildColumnMappingFrom(columns, 1, <<>>, {})

\* result.columns = [mapping[str(c)] for c in result.columns.tolist()]
RenamedColumns(columns, mapping) == [i \in 1..Len(columns) |-> mapping[columns[i]]]

MappingValues(mapping) == {mapping[l] : l \in DOMAIN mapping}

\* A resolver that hands back the normalised name of a label it does not
\* find (a wrong variant, used to test the properties).
ResolveLabelLenient(requested_name, mapping) ==
    IF requested_name \in DOMAIN mapping
    THEN [ok |-> TRUE, key |-> mapping[requested_name]]
    ELSE IF requested_name \in MappingValues(mapping)
    THEN [ok |-> TRUE, key |-> requested_name]
    ELSE [ok |-> TRUE, key |-> NormalizeLabel(requested_name)]

\* _resolve_column_name; ok = FALSE is the ValueError.
ResolveLabel(requested_name, mapping) ==
    IF requested_name \in DOMAIN mapping
    THEN [ok |-> TRUE, key |-> mapping[requested_name]]
    ELSE IF requested_name \in MappingValues(mapping)
    THEN [ok |-> TRUE, key |-> requested_name]
    ELSE IF NormalizeLabel(requested_name) \in MappingValues(mapping)
    THEN [ok |-> TRUE, key |-> NormalizeLabel(requested_name)]
    ELSE [ok |-> FALSE, key |-> <<>>]

\* A driver loop that keeps the date and the target column (a wrong variant,
\* used to test the properties).
RECURSIVE ResolveDriverLabelsKeepAll(_, _, _, _)
ResolveDriverLabelsKeepAll(requested, mapping, date_col, target_col) ==
    IF requested = <<>> THEN <<>>
    ELSE LET r == ResolveLabel(requested[1], mapping)
             rest == ResolveDriverLabelsKeepAll(Tail(requested), mapping,
                                                date_col, target_col)
         IN  IF r.ok THEN <<r.key>> \o rest ELSE rest

\* The loop over requested_drivers at label level: a label that does not
\* resolve is skipped (the except branch), as is one that resolves to the date
\* or the target column.
RECURSIVE ResolveDriverLabels(_, _, _, _)
ResolveDriverLabels(requested, mapping, date_col, target_col) ==
    IF requested = <<>> THEN <<>>
    ELSE LET r == ResolveLabel(requested[1], mapping)
             rest == ResolveDriverLabels(Tail(requested), mapping, date_col, target_col)
         IN  IF r.ok /\ r.key \notin {date_col, target_col}
             THEN <<r.key>> \o rest
             ELSE rest

\* A table as the resolver sees it: its number of rows, its column labels in
\* order and the positions of the columns without any value.
LabelledTable(rows, columns, all_empty) ==
    [rows |-> rows, columns |-> columns, all_empty |-> all_empty]

\* df.dropna(how="all").dropna(axis=1, how="all") on the labels: the columns
\* that hold a value.
KeptLabels(df) ==
    FilterIdx(df.columns, [i \in 1..Len(df.columns) |-> i \notin df.all_empty], 1)

NoColumnArgs == [date_col |-> <<>>, target_col |-> <<>>, driver_cols |-> <<>>]
NoColumnLocals ==
    [mapping |-> <<>>, columns |-> <<>>, requested |-> <<>>,
     resolved |-> [ok |-> FALSE, key |-> <<>>],
     date_col |-> <<>>, target_col |-> <<>>, driver_cols |-> <<>>, error |-> "none"]

CnIdle ==
    /\ cn_pc = "idle"
    /\ cn_df = LabelledTable(0, <<>>, {})
    /\ cn_args = NoColumnArgs
    /\ cn_loc = NoColumnLocals

\* _build_column_mapping on the labels of a table and the renaming of its
\* columns (lines 456-457).
BuildColumnMappingCall ==
    /\ UNCHANGED notCn
    /\ cn_pc = "columns"
    /\ LET mapping == BuildColumnMapping(cn_df.columns)
       IN  cn_loc' = [cn_loc EXCEPT !.mapping = mapping,
                                    !.columns = RenamedColumns(cn_df.columns, mapping)]
    /\ cn_pc' = "mapped"
    /\ UNCHANGED <<cn_df, cn_args>>

\* The labels a caller may request.
RequestedLabels ==
    {<<" ", "S", " ", "#", " ">>, <<"S", " ", "#">>, <<"s">>, <<"S">>,
     <<"s", "_", "2">>, <<"s", "_", "3">>, <<"#">>, <<"%">>, <<"p", "c", "t">>,
     <<"c", "o", "l", "u", "m", "n">>, <<"d">>, <<"D">>, <<"t">>}

\* One call of _resolve_column_name against the mapping.
ResolveColumnNameCall ==
    /\ UNCHANGED notCn
    /\ cn_pc = "mapped"
    /\ \E requested_name \in RequestedLabels :
          cn_loc' = [cn_loc EXCEPT
                        !.requested = requested_name,
                        !.resolved = ResolveLabel(requested_name, cn_loc.mapping)]
    /\ UNCHANGED <<cn_pc, cn_df, cn_args>>

\* Lines 446-471 of clean_dataframe_for_training at label level: the empty
\* check, the all-empty rows and columns, the mapping and the resolution of
\* the date, target and driver labels.
CleanResolveColumns ==
    /\ UNCHANGED notCn
    /\ cn_pc = "clean"
    /\ IF cn_df.rows = 0 \/ cn_df.columns = <<>>
       THEN /\ cn_pc' = "raise"
            /\ cn_loc' = [cn_loc EXCEPT !.error = "Input dataframe is empty"]
       ELSE LET kept == KeptLabels(cn_df)
                mapping == BuildColumnMapping(kept)
                d == ResolveLabel(cn_args.date_col, mapping)
                t == ResolveLabel(cn_args.target_col, mapping)
            IN  IF ~d.ok \/ ~t.ok
                THEN /\ cn_pc' = "raise"
                     /\ cn_loc' = [cn_loc EXCEPT !.error = "Column not found"]
                ELSE /\ cn_pc' = "resolved"
                     /\ cn_loc' = [cn_loc EXCEPT
                            !.mapping = mapping,
                            !.columns = RenamedColumns(kept, mapping),
                            !.date_col = d.key,
                            !.target_col = t.key,
                            !.driver_cols =
                                ResolveDriverLabels(cn_args.driver_cols, mapping,
                                                    d.key, t.key)]
    /\ UNCHANGED <<cn_df, cn_args>>

MaxColumns == 3

\* The column labels of the tables: variants of one name in case, blanks and
\* punctuation, a label that looks like a suffixed key, and labels without
\* any letter or digit.
ColumnLabels ==
    {<<" ", "S", " ", "#", " ">>, <<"s">>, <<"S">>, <<"s", "_", "2">>,
     <<"#">>, <<"%">>, <<"d">>}

ColumnsStart ==
    /\ cn_pc = "columns"
    /\ \E columns \in SeqsUpTo(ColumnLabels, MaxColumns) :
          cn_df = LabelledTable(1, columns, {})
    /\ cn_args = NoColumnArgs
    /\ cn_loc = NoColumnLocals

NextColumns == BuildColumnMappingCall \/ ResolveColumnNameCall

MaxDrivers == 2

\* Tables with at most one column without values, or without any value.
CleanLabelTables(max_columns) ==
    UNION {{LabelledTable(rows, columns, all_empty) :
               rows \in {0, 1},
               all_empty \in {{}, {1}, {2}, 1..Len(columns)}
                                \cap SUBSET (1..Len(columns))} :
           columns \in SeqsUpTo({<<"D">>, <<"S">>, <<"t">>}, max_columns)}

CleanLabelArgs(max_drivers) ==
    [date_col : {<<"D">>, <<"n">>},
     target_col : {<<" ", "s", "#">>, <<"n">>},
     driver_cols : SeqsUpTo({<<"t">>, <<"D">>, <<"n">>}, max_drivers)]

CleanColumnsStart ==
    /\ cn_pc = "clean"
    /\ cn_df \in CleanLabelTables(MaxColumns)
    /\ cn_args \in CleanLabelArgs(MaxDrivers)
    /\ cn_loc = NoColumnLocals

NextCleanColumns == CleanResolveColumns

--------------------------------------------------------------------------
(* Date parsing: parse_datetime_series (core/processing.py) and the        *)
(* pd.to_datetime call of clean_dataframe_for_training.  A raw date cell   *)
(* is missing, a text without a date,       or a date string of the year   *)
(* 2024: "a/b/2024", "a-b-2024" or "2024-mm-dd" with two-digit fields.  A  *)
(* parsed cell is NaT or a date [month, day].                              *)

NaT == [month |-> 0, day |-> 0]
Date(month, day) == [month |-> month, day |-> day]

MissingDate == [kind |-> "missing", a |-> 0, b |-> 0]
NoDate == [kind |-> "text", a |-> 0, b |-> 0]
Slash(a, b) == [kind |-> "slash", a |-> a, b |-> b]
Dash(a, b) == [kind |-> "dash", a |-> a, b |-> b]
Iso(month, day) == [kind |-> "iso", a |-> month, b |-> day]

IsDelimited(cell) == cell.kind \in {"slash", "dash"}

\* One interpretation of a delimited date, NaT when the month is not one.
Interpret(cell, interpretation) ==
    IF interpretation = "dayfirst"
    THEN (IF cell.b \in 1..12 THEN Date(cell.b, cell.a) ELSE NaT)
    ELSE (IF cell.a \in 1..12 THEN Date(cell.a, cell.b) ELSE NaT)

OtherInterpretation(interpretation) ==
    IF interpretation = "dayfirst" THEN "monthfirst" ELSE "dayfirst"

\* The element-wise parser behind pd.to_datetime: dayfirst is a preference, a
\* date that is not one under the preferred interpretation is parsed under
\* the other.
ParseElement(cell, dayfirst) ==
    IF cell.kind \in {"missing", "text"} THEN NaT
    ELSE IF cell.kind = "iso" THEN Date(cell.a, cell.b)
    ELSE LET preferred == IF dayfirst THEN "dayfirst" ELSE "monthfirst"
         IN  IF Interpret(cell, preferred) # NaT
             THEN Interpret(cell, preferred)
             ELSE Interpret(cell, OtherInterpretation(preferred))

\* The format pd.to_datetime guesses from a string: its separator and the
\* interpretation under which the element-wise parser reads it; "none" when
\* the string is no date.
GuessFormat(cell, dayfirst) ==
    IF ParseElement(cell, dayfirst) = NaT THEN [kind |-> "none", how |-> "none"]
    ELSE IF cell.kind = "iso" THEN [kind |-> "iso", how |-> "iso"]
    ELSE LET preferred == IF dayfirst THEN "dayfirst" ELSE "monthfirst"
         IN  [kind |-> cell.kind,
              how |-> IF Interpret(cell, preferred) # NaT
                      THEN preferred ELSE OtherInterpretation(preferred)]

\* Parsing one string under a guessed format, NaT when it does not match.
ParseWithFormat(cell, format) ==
    IF cell.kind # format.kind THEN NaT
    ELSE IF cell.kind = "iso" THEN Date(cell.a, cell.b)
    ELSE Interpret(cell, format.how)

FirstNonNull(values) ==
    IF \E i \in 1..Len(values) : values[i] # MissingDate
    THEN values[CHOOSE i \in 1..Len(values) :
                    /\ values[i] # MissingDate
                    /\ \A j \in 1..(i - 1) : values[j] = MissingDate]
    ELSE MissingDate

\* pd.to_datetime(values, errors="coerce", dayfirst=...).  With infer_format
\* (pandas from 2.0 on) the format is guessed from the first non-null string
\* and applied to the whole column, and only when none can be guessed is
\* each element parsed on its own; without it (older pandas) each element is
\* always parsed on its own.
ToDatetime(values, dayfirst, infer_format) ==
    LET format == GuessFormat(FirstNonNull(values), dayfirst)
    IN  IF infer_format /\ FirstNonNull(values) # MissingDate /\ format.kind # "none"
        THEN [i \in 1..Len(values) |-> ParseWithFormat(values[i], format)]
        ELSE [i \in 1..Len(values) |-> ParseElement(values[i], dayfirst)]

CountParsed(parsed) == Cardinality({i \in 1..Len(parsed) : parsed[i] # NaT})

\* a.fillna(b): the cells of b where a has none.
FillNaT(a, b) == [i \in 1..Len(a) |-> IF a[i] = NaT THEN b[i] ELSE a[i]]

\* parse_datetime_series on the cleaned strings (the wrappers stripped and
\* the date-like substring extracted).  Text cells may hold a slash.
ParseDatetimeSeries(values, text_has_slash, infer_format) ==
    LET has_slash_dates ==
            \E i \in 1..Len(values) :
                /\ values[i] # MissingDate
                /\ \/ values[i].kind = "slash"
                   \/ values[i].kind = "text" /\ text_has_slash
        parsed_default == ToDatetime(values, FALSE, infer_format)
        parsed_dayfirst == ToDatetime(values, TRUE, infer_format)
        \* yearfirst only orders two-digit years, which these strings lack
        parsed_yearfirst == ToDatetime(values, FALSE, infer_format)
    IN  IF has_slash_dates
        THEN (IF CountParsed(parsed_dayfirst) >= CountParsed(parsed_default)
              THEN parsed_dayfirst
              ELSE parsed_default)
        ELSE FillNaT(FillNaT(parsed_default, parsed_dayfirst), parsed_yearfirst)

NoDateArgs == [values |-> <<>>, text_has_slash |-> FALSE, infer_format |-> FALSE]

DpIdle ==
    /\ dp_pc = "idle"
    /\ dp_args = NoDateArgs
    /\ dp_result = <<>>

\* A call of parse_datetime_series.
ParseDatetimeSeriesCall ==
    /\ UNCHANGED notDp
    /\ dp_pc = "call"
    /\ dp_pc' = "parse_datetime_series"
    /\ dp_result' = ParseDatetimeSeries(dp_args.values, dp_args.text_has_slash,
                                        dp_args.infer_format)
    /\ UNCHANGED dp_args

\* Line 475 of clean_dataframe_for_training: the date column goes through
\* pd.to_datetime(errors="coerce") as it is.
CleanParseDates ==
    /\ UNCHANGED notDp
    /\ dp_pc = "call"
    /\ dp_pc' = "clean_dataframe_for_training"
    /\ dp_result' = ToDatetime(dp_args.values, FALSE, dp_args.infer_format)
    /\ UNCHANGED dp_args

MaxDates == 3

DateCells ==
    {MissingDate, NoDate, Iso(1, 2), Slash(1, 2), Slash(13, 2), Slash(2, 13),
     Dash(1, 2), Dash(13, 2)}

DateArgs(max_dates) ==
    [values : SeqsUpTo(DateCells, max_dates), text_has_slash : BOOLEAN,
     infer_format : BOOLEAN]

DatesStart ==
    /\ dp_pc = "call"
    /\ dp_args \in DateArgs(MaxDates)
    /\ dp_result = <<>>

NextDates == ParseDatetimeSeriesCall \/ CleanParseDates

--------------------------------------------------------------------------
(* Helpers called on their own: validate_ready_for_ml                      *)
(* (core/preprocessing.py), parse_lag_config (core/training.py) and        *)
(* parse_test_size (core/metrics.py).  fn_pc is "call" before the call and *)
(* "return" or "raise" after it.                                           *)

NoHelperArgs == [fn |-> "none"]

FnIdle ==
    /\ fn_pc = "idle"
    /\ fn_args = NoHelperArgs
    /\ fn_result = <<>>

\* A call of validate_ready_for_ml on a table with the columns target and x.
ValidateReadyForMlCall ==
    /\ UNCHANGED notFn
    /\ fn_pc = "call"
    /\ fn_args.fn = "validate_ready_for_ml"
    /\ fn_pc' = "return"
    /\ fn_result' = ValidateReadyForMl(fn_args.df, fn_args.columns, fn_args.numeric,
                                       fn_args.target_column, fn_args.min_rows)
    /\ UNCHANGED fn_args

MaxReadyRows == 2

ReadyArgs(max_rows) ==
    [fn : {"validate_ready_for_ml"},
     df : SeqsUpTo([target : {NaN, PInf, IntV(1)}, x : {NaN, PInf, IntV(1)}], max_rows),
     columns : {{"target", "x"}},
     numeric : SUBSET {"target", "x"},
     target_column : {"target", "y"},
     min_rows : {1, max_rows + 1}]

ReadyStart ==
    /\ fn_pc = "call"
    /\ fn_args \in ReadyArgs(MaxReadyRows)
    /\ fn_result = <<>>

NextReady == ValidateReadyForMlCall

\* value.split(","): the pieces between the commas.
RECURSIVE SplitAt(_, _, _)
SplitAt(s, sep, piece) ==
    IF s = <<>> THEN <<piece>>
    ELSE IF s[1] = sep THEN <<piece>> \o SplitAt(Tail(s), sep, <<>>)
    ELSE SplitAt(Tail(s), sep, Append(piece, s[1]))

Split(s, sep) == SplitAt(s, sep, <<>>)

DigitValue(c) ==
    CASE c = "0" -> 0 [] c = "1" -> 1 [] c = "2" -> 2 [] c = "3" -> 3 [] c = "4" -> 4
      [] c = "5" -> 5 [] c = "6" -> 6 [] c = "7" -> 7 [] c = "8" -> 8 [] OTHER -> 9

IsDigit(c) == c \in {"0", "1", "2", "3", "4", "5", "6", "7", "8", "9"}

RECURSIVE DigitsValue(_, _)
DigitsValue(s, acc) ==
    IF s = <<>> THEN acc ELSE DigitsValue(Tail(s), 10 * acc + DigitValue(s[1]))

\* int(item) on a stripped string: an optional sign and digits; ok = FALSE is
\* the ValueError.
ParseInt(item) ==
    LET signed == item # <<>> /\ item[1] \in {"-", "+"}
        digits == IF signed THEN Tail(item) ELSE item
    IN  IF digits = <<>> \/ \E i \in 1..Len(digits) : ~IsDigit(digits[i])
        THEN [ok |-> FALSE, value |-> 0]
        ELSE [ok |-> TRUE,
              value |-> IF signed /\ item[1] = "-"
                        THEN 0 - DigitsValue(digits, 0)
                        ELSE DigitsValue(digits, 0)]

\* items = [v.strip() for v in value.split(",") if v.strip()]
Items(value) ==
    LET pieces == Split(value, ",")
        stripped == [i \in 1..Len(pieces) |-> Strip(pieces[i], {" "})]
    IN  FilterIdx(stripped, [i \in 1..Len(stripped) |-> stripped[i] # <<>>], 1)

\* parse_lag_config: ok = FALSE is a ValueError (of int() or "At least one lag
\* is required").
ParseLagConfig(value) ==
    LET items == Items(value)
        parsed == [i \in 1..Len(items) |-> ParseInt(items[i])]
    IN  IF \E i \in 1..Len(parsed) : ~parsed[i].ok
        THEN [ok |-> FALSE, error |-> "invalid literal for int()", lags |-> <<>>]
        ELSE IF parsed = <<>>
        THEN [ok |-> FALSE, error |-> "At least one lag is required", lags |-> <<>>]
        ELSE [ok |-> TRUE, error |-> "none",
              lags |-> [i \in 1..Len(parsed) |-> parsed[i].value]]

\* A call of parse_lag_config.
ParseLagConfigCall ==
    /\ UNCHANGED notFn
    /\ fn_pc = "call"
    /\ fn_args.fn = "parse_lag_config"
    /\ LET r == ParseLagConfig(fn_args.value)
       IN  /\ fn_pc' = IF r.ok THEN "return" ELSE "raise"
           /\ fn_result' = IF r.ok THEN r.lags ELSE r.error
    /\ UNCHANGED fn_args

MaxConfigLen == 3

LagConfigArgs(max_len) ==
    [fn : {"parse_lag_config"},
     value : SeqsUpTo({"0", "1", "2", ",", "-", " "}, max_len)]

LagConfigStart ==
    /\ fn_pc = "call"
    /\ fn_args \in LagConfigArgs(MaxConfigLen)
    /\ fn_result = <<>>

NextLagConfig == ParseLagConfigCall

\* A call of parse_test_size.
ParseTestSizeCall ==
    /\ UNCHANGED notFn
    /\ fn_pc = "call"
    /\ fn_args.fn = "parse_test_size"
    /\ LET r == ParseTestSize(fn_args.value, fn_args.n_rows)
       IN  /\ fn_pc' = IF r.ok THEN "return" ELSE "raise"
           /\ fn_result' = IF r.ok THEN r.test_len ELSE "ValueError"
    /\ UNCHANGED fn_args

MaxTestRows == 4

TestSizeValues(max_rows) ==
    {IntTestSize(w) : w \in -1..(max_rows + 1)}
      \cup {FloatTestSize(e) : e \in -1..(2 * Eighths)}
      \cup {StrTestSize(w * Eighths, FALSE) : w \in 0..(max_rows + 1)}
      \cup {StrTestSize(e, TRUE) : e \in 1..(2 * Eighths)}
      \cup {TextTestSize}

TestSizeArgs(max_rows) ==
    [fn : {"parse_test_size"},
     value : TestSizeValues(max_rows),
     n_rows : 1..max_rows]

TestSizeStart ==
    /\ fn_pc = "call"
    /\ fn_args \in TestSizeArgs(MaxTestRows)
    /\ fn_result = <<>>

NextTestSize == ParseTestSizeCall

--------------------------------------------------------------------------
(* train_and_forecast (core/training.py) from the 20-point check to the    *)
(* forecast, for a target series without missing values and without        *)
(* drivers.  The fitted models are scikit-learn's: fit, predict and the     *)
(* metrics raise ValueError("Found array with 0 sample(s) ...") on an       *)
(* input without rows.                                                     *)

NoTrainArgs ==
    [n |-> 0, lag_config |-> <<>>, auto_select_lags |-> FALSE, baseline_model |-> "",
     seasonal_period |-> 0, test_window_weeks |-> 0]

NoTrainLocals ==
    [lags |-> <<>>, frame_len |-> -1, evaluate_split_calls |-> 0, error |-> "",
     metrics |-> FALSE, forecast |-> FALSE]

TfIdle ==
    /\ tf_pc = "idle"
    /\ tf_args = NoTrainArgs
    /\ tf_loc = NoTrainLocals

\* len(build_feature_frame(...)) for a series of n values without a missing
\* one: dropna removes the first max(lags) rows.
FrameLen(n, lags) == IF n > MaxOf(lags) THEN n - MaxOf(lags) ELSE 0

\* The rows walk_forward_rmse appends, for a frame of frame_len rows.
WalkForwardRows(args) ==
    LET rows == Rows(MinTrainSize(args.lags), args.frame_len)
    IN  FilterIdx(rows, [j \in 1..Len(rows) |-> ~SeasonalWarmup(args, rows[j])], 1)

NoSamples == "Found array with 0 sample(s)"

EvaluateLenient(args) ==
    LET split == EvaluateSplitRows(args)
    IN  IF split.train = <<>> \/ split.y_pred_multi = <<>>
        THEN [ok |-> FALSE, error |-> NoSamples]
        ELSE [ok |-> TRUE, error |-> ""]

\* evaluate_split / evaluate_metrics on a frame: model.fit raises on a train
\* part without rows, model.predict on a test part without rows, and rmse
\* in walk_forward_rmse on prediction lists without an element.
Evaluate(args) ==
    LET split == EvaluateSplitRows(args)
    IN  IF \/ split.train = <<>>
           \/ split.y_pred_multi = <<>>
           \/ WalkForwardRows(args) = <<>>
        THEN [ok |-> FALSE, error |-> NoSamples]
        ELSE [ok |-> TRUE, error |-> ""]

\* The arguments of evaluate_split / evaluate_metrics for a lag set.
EvaluateArgs(args, lags, caller) ==
    [frame_len |-> FrameLen(args.n, lags), lags |-> lags,
     baseline_model |-> args.baseline_model, seasonal_period |-> args.seasonal_period,
     caller |-> caller, test_size |-> args.test_window_weeks]

\* if len(target_series) < 20: raise ValueError
TrainCheckPoints ==
    /\ UNCHANGED notTf
    /\ tf_pc = "start"
    /\ IF tf_args.n < 20
       THEN /\ tf_pc' = "raise"
            /\ tf_loc' = [tf_loc EXCEPT
                             !.error = "Need at least 20 data points to train a model"]
       ELSE /\ tf_pc' = "select_lags"
            /\ UNCHANGED tf_loc
    /\ UNCHANGED tf_args

\* select_lags: the configured lags, or with auto_select the best of the
\* default candidate sets, each of which grid_search_lags evaluates with
\* evaluate_metrics; an error of an evaluation propagates.
TrainSelectLags ==
    /\ UNCHANGED notTf
    /\ tf_pc = "select_lags"
    /\ IF ~tf_args.auto_select_lags
       THEN /\ tf_pc' = "build_frame"
            /\ tf_loc' = [tf_loc EXCEPT !.lags = tf_args.lag_config]
       ELSE IF \E k \in 1..Len(DefaultCandidates) :
                  ~Evaluate(EvaluateArgs(tf_args, DefaultCandidates[k],
                                         "evaluate_metrics")).ok
       THEN /\ tf_pc' = "raise"
            /\ tf_loc' = [tf_loc EXCEPT !.error = NoSamples]
       ELSE /\ tf_pc' = "build_frame"
            /\ \E k \in 1..Len(DefaultCandidates) :
                   tf_loc' = [tf_loc EXCEPT !.lags = DefaultCandidates[k]]
    /\ UNCHANGED tf_args

\* frame = build_feature_frame(target_series, drivers_df, calendar_df, lags)
TrainBuildFrame ==
    /\ UNCHANGED notTf
    /\ tf_pc = "build_frame"
    /\ tf_pc' = "evaluate"
    /\ tf_loc' = [tf_loc EXCEPT !.frame_len = FrameLen(tf_args.n, tf_loc.lags)]
    /\ UNCHANGED tf_args

\* eval_result = evaluate_split(frame, lags, test_window_weeks, ...)
TrainEvaluate ==
    /\ UNCHANGED notTf
    /\ tf_pc = "evaluate"
    /\ LET r == Evaluate(EvaluateArgs(tf_args, tf_loc.lags, "evaluate_split"))
       IN  /\ tf_pc' = IF r.ok THEN "forecast" ELSE "raise"
           /\ tf_loc' = [tf_loc EXCEPT !.evaluate_split_calls = @ + 1,
                                       !.error = r.error]
    /\ UNCHANGED tf_args

\* forecast_future, the csv files and the returned metrics.
TrainForecast ==
    /\ UNCHANGED notTf
    /\ tf_pc = "forecast"
    /\ tf_pc' = "return"
    /\ tf_loc' = [tf_loc EXCEPT !.forecast = TRUE, !.metrics = TRUE]
    /\ UNCHANGED tf_args

MaxPoints == 27

TrainArgs(max_points) ==
    {[n |-> n, lag_config |-> l, auto_select_lags |-> a, baseline_model |-> b,
      seasonal_period |-> p, test_window_weeks |-> t] :
        n \in 18..max_points, l \in WalkLagLists, a \in BOOLEAN,
        b \in {"lagged_ridge", "seasonal_naive"}, p \in {2, 52},
        t \in WalkTestSizes}

TrainStart ==
    /\ tf_pc = "start"
    /\ tf_args \in {a \in TrainArgs(MaxPoints) :
                       a.baseline_model = "lagged_ridge" => a.seasonal_period = 52}
    /\ tf_loc = NoTrainLocals

NextTrain ==
    TrainCheckPoints \/ TrainSelectLags \/ TrainBuildFrame \/ TrainEvaluate
        \/ TrainForecast

\* handle_missing called on its own, with every strategy and its errors.
\* fill_value is given or None.
NoFillValue == [given |-> FALSE, value |-> NaN]
FillValue(v) == [given |-> TRUE, value |-> v]

\* Series.fillna(value): a NaN value fills nothing.
FillNa(values, value) ==
    [i \in 1..Len(values) |-> IF IsNaN(values[i]) THEN value ELSE values[i]]

HandleMissingStrategies ==
    {"drop", "mean", "median", "ffill", "bfill", "interpolate", "value"}

HandleMissingInPlace(df, columns, column, strategy, fill_value) ==
    IF column \notin columns
    THEN [ok |-> FALSE, error |-> "ValueError", result |-> <<>>, df |-> df]
    ELSE IF strategy = "mean"
    THEN LET filled == SetColumn(df, column,
                           FillNa(Column(df, column), Mean(Column(df, column))))
         IN  [ok |-> TRUE, error |-> "", result |-> filled, df |-> filled]
    ELSE IF strategy = "value"
    THEN IF ~fill_value.given
         THEN [ok |-> FALSE, error |-> "ValueError", result |-> <<>>, df |-> df]
         ELSE LET filled == SetColumn(df, column,
                                FillNa(Column(df, column), fill_value.value))
              IN  [ok |-> TRUE, error |-> "", result |-> filled, df |-> filled]
    ELSE IF strategy \in HandleMissingStrategies
    THEN [ok |-> TRUE, error |-> "", result |-> HandleMissing(df, column, strategy),
          df |-> IF strategy = "drop" THEN df ELSE HandleMissing(df, column, strategy)]
    ELSE [ok |-> FALSE, error |-> "ValueError", result |-> <<>>, df |-> df]

\* handle_missing(df, column, strategy, fill_value): the returned table
\* (result) and the caller's table after the call (df); every strategy works
\* on result = df.copy().
HandleMissingOn(df, columns, column, strategy, fill_value) ==
    IF column \notin columns
    THEN [ok |-> FALSE, error |-> "ValueError", result |-> <<>>, df |-> df]
    ELSE IF strategy = "mean"
    THEN [ok |-> TRUE, error |-> "",
          result |-> SetColumn(df, column,
                        FillNa(Column(df, column), Mean(Column(df, column)))),
          df |-> df]
    ELSE IF strategy = "value"
    THEN IF ~fill_value.given
         THEN [ok |-> FALSE, error |-> "ValueError", result |-> <<>>, df |-> df]
         ELSE [ok |-> TRUE, error |-> "",
               result |-> SetColumn(df, column,
                             FillNa(Column(df, column), fill_value.value)),
               df |-> df]
    ELSE IF strategy \in HandleMissingStrategies
    THEN [ok |-> TRUE, error |-> "", result |-> HandleMissing(df, column, strategy),
          df |-> df]
    ELSE [ok |-> FALSE, error |-> "ValueError", result |-> <<>>, df |-> df]

\* A call of handle_missing.
HandleMissingCall ==
    /\ UNCHANGED notFn
    /\ fn_pc = "call"
    /\ fn_args.fn = "handle_missing"
    /\ LET r == HandleMissingOn(fn_args.df, fn_args.columns, fn_args.column,
                                fn_args.strategy, fn_args.fill_value)
       IN  /\ fn_pc' = IF r.ok THEN "return" ELSE "raise"
           /\ fn_result' = IF r.ok THEN r.result ELSE <<r.error>>
           /\ fn_args' = [fn_args EXCEPT !.df = r.df]

MaxMissingRows == 3

HandleMissingArgs(max_rows) ==
    [fn : {"handle_missing"},
     df : SeqsUpTo([x : {NaN, IntV(1), IntV(3), PInf, NInf}, y : {IntV(0)}], max_rows),
     columns : {{"x", "y"}},
     column : {"x", "z"},
     strategy : {"drop", "mean", "median", "value", "unknown"},
     fill_value : {NoFillValue, FillValue(IntV(0))}]

HandleMissingStart ==
    /\ fn_pc = "call"
    /\ fn_args \in HandleMissingArgs(MaxMissingRows)
    /\ fn_result = <<>>

NextHandleMissing == HandleMissingCall

\* _coerce_numeric on a column of strings.  A cell is a sequence of
\* characters; "$" stands for any of the currency symbols of the pattern.

\* .str.replace(pattern, "", regex=True) for a character class.
RemoveChars(s, chars) ==
    FilterIdx(s, [i \in 1..Len(s) |-> s[i] \notin chars], 1)

\* pd.to_numeric(errors="coerce") on a string of signs and digits.
ToNumeric(s) ==
    IF ParseInt(s).ok THEN IntV(ParseInt(s).value) ELSE NaN

\* .replace({"": np.nan, "nan": np.nan, "None": np.nan, "null": np.nan})
MissingTexts ==
    {<<>>, <<"n", "a", "n">>, <<"N", "o", "n", "e">>, <<"n", "u", "l", "l">>}

\* The non-numeric branch of _coerce_numeric for one cell.
CoerceNumericText(s) ==
    LET cleaned == RemoveChars(RemoveChars(s, {"$", ","}), {" "})
    IN  IF cleaned \in MissingTexts THEN NaN ELSE ToNumeric(cleaned)

\* _coerce_numeric(values) for a column of strings.
CoerceNumeric(values) ==
    [i \in 1..Len(values) |-> CoerceNumericText(values[i])]

\* A call of _coerce_numeric.
CoerceNumericCall ==
    /\ UNCHANGED notFn
    /\ fn_pc = "call"
    /\ fn_args.fn = "_coerce_numeric"
    /\ fn_pc' = "return"
    /\ fn_result' = CoerceNumeric(fn_args.values)
    /\ UNCHANGED fn_args

MaxDigits == 2

\* Cells written as an amount: a prefix, up to max_digits digits, an
\* optional thousands group and a suffix.
AmountTexts(max_digits) ==
    {prefix \o digits \o group \o suffix :
        prefix \in {<<>>, <<"$">>, <<"(">>, <<"-">>, <<" ">>},
        digits \in SeqsUpTo({"0", "1", "2"}, max_digits),
        group \in {<<>>, <<",", "0", "0", "0">>},
        suffix \in {<<>>, <<"%">>, <<" ", "%">>, <<")">>, <<" ">>}}

CoerceArgs(max_digits) ==
    [fn : {"_coerce_numeric"},
     values : {<<s>> : s \in AmountTexts(max_digits)}]

CoerceStart ==
    /\ fn_pc = "call"
    /\ fn_args \in CoerceArgs(MaxDigits)
    /\ fn_result = <<>>

NextCoerce == CoerceNumericCall

\* Future driver rows: the driver table of prepare_series_and_drivers and
\* build_future_drivers (core/features.py) for a weekly history.  Day 0 is
\* Monday 2024-01-01; a table is a sequence of rows, a row a function from
\* column names to values.

\* pyholidays.UK(subdiv="England"): the holidays of 2024 as day numbers.
UKHolidays == {0, 88, 91, 126, 147, 238, 359, 360}

\* The first day of each month of 2024.
MonthStarts == <<0, 31, 60, 91, 121, 152, 182, 213, 244, 274, 305, 335>>

CalendarColumns == {"cal_month", "cal_quarter", "cal_weekofyear", "cal_dayofweek"}

\* build_calendar_features for one date of the index.
CalendarFeatures(day) ==
    LET month == Cardinality({m \in 1..Len(MonthStarts) : MonthStarts[m] <= day})
    IN  [c \in CalendarColumns |->
            CASE c = "cal_month" -> IntV(month)
              [] c = "cal_quarter" -> IntV(((month - 1) \div 3) + 1)
              [] c = "cal_weekofyear" -> IntV((day \div 7) + 1)
              [] c = "cal_dayofweek" -> IntV(day % 7)]

\* build_holiday_features for one date of a weekly index: the holidays of
\* the daily range index.min()..index.max() that fall in the week ending on
\* that date (resample by the inferred frequency, then reindex).
HolidayCount(index, day) ==
    Cardinality({h \in UKHolidays :
                    /\ index[1] <= h /\ h <= index[Len(index)]
                    /\ day - 7 < h /\ h <= day})

NoDriversFrame == [present |-> FALSE, columns |-> {}, rows |-> <<>>]

\* drivers_df of prepare_series_and_drivers: the uploaded driver columns,
\* joined by holiday_count when holiday_features is set.
PrepareDrivers(index, drivers, holiday_features) ==
    LET columns == (IF drivers # <<>> THEN {"temp"} ELSE {})
                       \cup (IF holiday_features THEN {"holiday_count"} ELSE {})
    IN  IF columns = {} THEN NoDriversFrame
        ELSE [present |-> TRUE, columns |-> columns,
              rows |-> [i \in 1..Len(index) |->
                          [c \in columns |->
                              IF c = "temp" THEN drivers[i]
                              ELSE IntV(HolidayCount(index, index[i]))]]]

\* build_future_drivers
BuildFutureDrivers(drivers_df, calendar_features, future_index) ==
    LET has_drivers == drivers_df.present /\ drivers_df.rows # <<>>
        driver_columns == IF has_drivers THEN drivers_df.columns ELSE {}
        last_values == drivers_df.rows[Len(drivers_df.rows)]
        columns == driver_columns
                       \cup (IF calendar_features THEN CalendarColumns ELSE {})
    IN  [i \in 1..Len(future_index) |->
            [c \in columns |->
                IF c \in driver_columns THEN last_values[c]
                ELSE CalendarFeatures(future_index[i])[c]]]

TargetLag(lag) == [name |-> "target_lag", lag |-> lag]
FeatureColumn(name) == [name |-> name, lag |-> 0]

\* multivariate_features: the columns of the feature frame other than y.
MultivariateFeatures(lags, drivers_df, calendar_features) ==
    {TargetLag(lag) : lag \in Range(lags)}
        \cup {FeatureColumn(c) : c \in drivers_df.columns}
        \cup (IF calendar_features THEN {FeatureColumn(c) : c \in CalendarColumns} ELSE {})

\* The keys of multi_row for one future date.
MultiRowKeys(lags, future_row) ==
    {TargetLag(lag) : lag \in Range(lags)}
        \cup {FeatureColumn(c) : c \in DOMAIN future_row}

\* forecast_future up to the loop over future_index, after
\* prepare_series_and_drivers: one record per future date.
FutureDriversCall ==
    /\ UNCHANGED notFn
    /\ fn_pc = "call"
    /\ fn_args.fn = "build_future_drivers"
    /\ LET drivers_df == PrepareDrivers(fn_args.index, fn_args.drivers,
                                        fn_args.holiday_features)
           future_index == FutureIndex(fn_args.index[Len(fn_args.index)],
                                       fn_args.horizon)
           future_drivers == BuildFutureDrivers(drivers_df,
                                                fn_args.calendar_features,
                                                future_index)
       IN  fn_result' = [i \in 1..Len(future_index) |->
                            [date |-> future_index[i],
                             row |-> future_drivers[i],
                             multi_row |-> MultiRowKeys(fn_args.lags, future_drivers[i]),
                             multivariate_features |->
                                 MultivariateFeatures(fn_args.lags, drivers_df,
                                                      fn_args.calendar_features)]]
    /\ fn_pc' = "return"
    /\ UNCHANGED fn_args

MaxHistoryWeeks == 4

\* Weekly histories of Sundays in March and April 2024, with or without an
\* uploaded driver column.
FutureDriverArgs(max_weeks) ==
    UNION {[fn : {"build_future_drivers"},
            index : {[i \in 1..n |-> first + 7 * (i - 1)]},
            drivers : {<<>>} \cup [1..n -> {IntV(5), IntV(7)}],
            holiday_features : BOOLEAN,
            calendar_features : BOOLEAN,
            lags : LagLists,
            horizon : 1..MaxHorizon] :
              n \in 3..max_weeks, first \in {69, 76, 83}}

FutureDriversStart ==
    /\ fn_pc = "call"
    /\ fn_args \in FutureDriverArgs(MaxHistoryWeeks)
    /\ fn_result = <<>>

NextFutureDrivers == FutureDriversCall

\* The future timestamps of forecast_future for the history that
\* prepare_series_and_drivers hands over.  An index is an ascending sequence
\* of day numbers of 2024.

NoFreq == [kind |-> "none", step |-> 0]

\* pd.infer_freq on an index of at least three dates: a fixed step in days
\* ("D", "W-<day>", "<k>D"), month starts ("MS"), or None.
InferFreq(index) ==
    LET n == Len(index)
        step == index[2] - index[1]
    IN  IF \A i \in 2..n : index[i] - index[i - 1] = step
        THEN [kind |-> "days", step |-> step]
        ELSE IF \E m \in 1..Len(MonthStarts) :
                    /\ m + n - 1 <= Len(MonthStarts)
                    /\ \A i \in 1..n : index[i] = MonthStarts[m + i - 1]
        THEN [kind |-> "MS", step |-> 0]
        ELSE NoFreq

\* df.asfreq("W") followed by the dropna of the target: the dates of the
\* index that are Sundays.
AsFreqWeekly(index) ==
    FilterIdx(index, [i \in 1..Len(index) |-> index[i] % 7 = 6], 1)

\* The index of target_series after prepare_series_and_drivers.
PreparedIndex(index) ==
    IF InferFreq(index) = NoFreq THEN AsFreqWeekly(index) ELSE index

\* prepare_series_and_drivers, then forecast_future up to future_index.
FutureIndexCall ==
    /\ UNCHANGED notFn
    /\ fn_pc = "call"
    /\ fn_args.fn = "forecast_future"
    /\ IF Len(fn_args.index) < 3 \/ PreparedIndex(fn_args.index) = <<>>
       THEN /\ fn_pc' = "raise"
            /\ fn_result' = <<"ValueError">>
       ELSE /\ fn_pc' = "return"
            /\ LET target_index == PreparedIndex(fn_args.index)
                   last_date == target_index[Len(target_index)]
               IN  fn_result' = FutureIndex(last_date, fn_args.horizon)
    /\ UNCHANGED fn_args

MaxHistoryDates == 4

\* Daily, weekly and fortnightly histories starting on a Sunday or a Monday,
\* and monthly histories of month starts.
RegularIndexes(max_dates) ==
    {[i \in 1..n |-> first + step * (i - 1)] :
        n \in 2..max_dates, first \in {6, 7}, step \in {1, 7, 14}}
    \cup {[i \in 1..n |-> MonthStarts[m + i - 1]] : n \in 2..max_dates, m \in {1, 2}}

\* The same histories with one inner date missing.
GappedIndexes(max_dates) ==
    UNION {{RemoveAt(index, i) : i \in 2..(Len(index) - 1)} :
              index \in RegularIndexes(max_dates + 1)}

FutureIndexArgs(max_dates) ==
    [fn : {"forecast_future"},
     index : RegularIndexes(max_dates) \cup GappedIndexes(max_dates),
     horizon : 1..MaxHorizon]

FutureIndexStart ==
    /\ fn_pc = "call"
    /\ fn_args \in FutureIndexArgs(MaxHistoryDates)
    /\ fn_result = <<>>

NextFutureIndex == FutureIndexCall

--------------------------------------------------------------------------
(* Specifications: one per component, each over its own inputs; the other  *)
(* components stay idle.                                                   *)

InitOutliers == HoInit /\ ClIdle /\ FfIdle /\ FcIdle /\ WfIdle /\ LsIdle /\ ApiIdle /\ CnIdle /\ DpIdle /\ FnIdle /\ TfIdle
NextOutliers == HandleOutliersCall
SpecOutliers == InitOutliers /\ [][NextOutliers]_vars

\* Tables whose date column holds strings that are no dates.
UnparseableDateTables ==
    {<<[date |-> d1, target |-> IntV(0), drv |-> IntV(0)],
       [date |-> d2, target |-> IntV(9), drv |-> IntV(0)]>> :
        d1 \in {Text, IntV(1)}, d2 \in {Text, NaN}}

CleanInputsTarget ==
    \/ /\ cl_df \in TargetTables(MaxCleanRows) \cup TargetOutlierTables(MaxCleanRows)
       /\ cl_args \in CleanArgs({"date"}, {"target"}, {<<>>},
                                {"keep", "cap", "remove"}, {"none"}, {TRUE})
    \/ /\ cl_df \in DailyTables(1, {IntV(0)}, {IntV(0)})
       /\ cl_args \in CleanArgs({"date", "zzz"}, {"target", "zzz"}, {<<>>},
                                {"cap"}, {"none"}, {TRUE})
    \/ /\ cl_df \in UnparseableDateTables
       /\ cl_args \in CleanArgs({"date"}, {"target"}, {<<>>},
                                {"keep", "cap"}, {"none"}, {TRUE})

InitCleanTarget == ClStart /\ CleanInputsTarget /\ HoIdle /\ FfIdle /\ FcIdle /\ WfIdle /\ LsIdle /\ ApiIdle /\ CnIdle /\ DpIdle /\ FnIdle /\ TfIdle
SpecCleanTarget == InitCleanTarget /\ [][NextClean]_vars

\* Daily and gapped dates around a week boundary (days 5 and 6 are a Saturday
\* and a Sunday, day 7 the next Monday), one driver with missing cells.
DriverTables(max_rows) ==
    SeqsUpTo(CleanRows({IntV(5), IntV(6), IntV(7), IntV(20)},
                       {IntV(1)},
                       {NaN, IntV(0), IntV(9)}),
             max_rows)

CleanInputsDrivers ==
    /\ cl_df \in DriverTables(MaxCleanRows)
    /\ cl_args \in CleanArgs({"date"}, {"target"}, {<<>>, <<"drv">>},
                             {"keep"}, {"none"}, {TRUE, FALSE})

InitCleanDrivers == ClStart /\ CleanInputsDrivers /\ HoIdle /\ FfIdle /\ FcIdle /\ WfIdle /\ LsIdle /\ ApiIdle /\ CnIdle /\ DpIdle /\ FnIdle /\ TfIdle
SpecCleanDrivers == InitCleanDrivers /\ [][NextClean]_vars

MaxDriverRows == 4

\* Daily tables long enough for the IQR rule to find an outlier in the
\* driver; the last target value may be an outlier as well.
DriverOutlierTables(max_rows) ==
    {t \in DailyTables(max_rows, {IntV(0), IntV(9)}, {NaN, IntV(0), IntV(9)}) :
        \A i \in 1..(max_rows - 1) : t[i].target = IntV(0)}

CleanInputsDriverOutliers ==
    /\ cl_df \in DriverOutlierTables(MaxDriverRows)
    /\ cl_args \in CleanArgs({"date"}, {"target"}, {<<"drv">>},
                             {"keep", "remove"}, {"none", "keep", "cap", "remove"},
                             {FALSE})

InitCleanDriverOutliers == ClStart /\ CleanInputsDriverOutliers /\ HoIdle /\ FfIdle /\ FcIdle /\ WfIdle /\ LsIdle /\ ApiIdle /\ CnIdle /\ DpIdle /\ FnIdle /\ TfIdle
SpecCleanDriverOutliers == InitCleanDriverOutliers /\ [][NextClean]_vars

InitFeature == FfInit /\ HoIdle /\ ClIdle /\ FcIdle /\ WfIdle /\ LsIdle /\ ApiIdle /\ CnIdle /\ DpIdle /\ FnIdle /\ TfIdle
NextFeature == BuildFeatureFrameCall
SpecFeature == InitFeature /\ [][NextFeature]_vars

InitForecast == FcInit /\ HoIdle /\ ClIdle /\ FfIdle /\ WfIdle /\ LsIdle /\ ApiIdle /\ CnIdle /\ DpIdle /\ FnIdle /\ TfIdle
SpecForecast == InitForecast /\ [][NextForecast]_vars

InitWalk == WfInit /\ HoIdle /\ ClIdle /\ FfIdle /\ FcIdle /\ LsIdle /\ ApiIdle /\ CnIdle /\ DpIdle /\ FnIdle /\ TfIdle
SpecWalk == InitWalk /\ [][NextWalk]_vars

InitLagSearch == LsInit /\ HoIdle /\ ClIdle /\ FfIdle /\ FcIdle /\ WfIdle /\ ApiIdle /\ CnIdle /\ DpIdle /\ FnIdle /\ TfIdle
SpecLagSearch == InitLagSearch /\ [][NextLagSearch]_vars

InitApi == ApiInit /\ HoIdle /\ ClIdle /\ FfIdle /\ FcIdle /\ WfIdle /\ LsIdle /\ CnIdle /\ DpIdle /\ FnIdle /\ TfIdle
SpecApi == InitApi /\ [][NextApi]_vars

InitColumns == ColumnsStart /\ HoIdle /\ ClIdle /\ FfIdle /\ FcIdle /\ WfIdle /\ LsIdle /\ ApiIdle /\ DpIdle /\ FnIdle /\ TfIdle
SpecColumns == InitColumns /\ [][NextColumns]_vars

InitCleanColumns == CleanColumnsStart /\ HoIdle /\ ClIdle /\ FfIdle /\ FcIdle /\ WfIdle /\ LsIdle /\ ApiIdle /\ DpIdle /\ FnIdle /\ TfIdle
SpecCleanColumns == InitCleanColumns /\ [][NextCleanColumns]_vars

InitDates == DatesStart /\ HoIdle /\ ClIdle /\ FfIdle /\ FcIdle /\ WfIdle /\ LsIdle /\ ApiIdle /\ CnIdle /\ FnIdle /\ TfIdle
SpecDates == InitDates /\ [][NextDates]_vars

InitReady == ReadyStart /\ HoIdle /\ ClIdle /\ FfIdle /\ FcIdle /\ WfIdle /\ LsIdle /\ ApiIdle /\ CnIdle /\ DpIdle /\ TfIdle
SpecReady == InitReady /\ [][NextReady]_vars

InitLagConfig == LagConfigStart /\ HoIdle /\ ClIdle /\ FfIdle /\ FcIdle /\ WfIdle /\ LsIdle /\ ApiIdle /\ CnIdle /\ DpIdle /\ TfIdle
SpecLagConfig == InitLagConfig /\ [][NextLagConfig]_vars

InitTestSize == TestSizeStart /\ HoIdle /\ ClIdle /\ FfIdle /\ FcIdle /\ WfIdle /\ LsIdle /\ ApiIdle /\ CnIdle /\ DpIdle /\ TfIdle
SpecTestSize == InitTestSize /\ [][NextTestSize]_vars

InitCoerce == CoerceStart /\ HoIdle /\ ClIdle /\ FfIdle /\ FcIdle /\ WfIdle /\ LsIdle /\ ApiIdle /\ CnIdle /\ DpIdle /\ TfIdle
SpecCoerce == InitCoerce /\ [][NextCoerce]_vars

InitFutureDrivers == FutureDriversStart /\ HoIdle /\ ClIdle /\ FfIdle /\ FcIdle /\ WfIdle /\ LsIdle /\ ApiIdle /\ CnIdle /\ DpIdle /\ TfIdle
SpecFutureDrivers == InitFutureDrivers /\ [][NextFutureDrivers]_vars

InitFutureIndex == FutureIndexStart /\ HoIdle /\ ClIdle /\ FfIdle /\ FcIdle /\ WfIdle /\ LsIdle /\ ApiIdle /\ CnIdle /\ DpIdle /\ TfIdle
SpecFutureIndex == InitFutureIndex /\ [][NextFutureIndex]_vars

InitHandleMissing == HandleMissingStart /\ HoIdle /\ ClIdle /\ FfIdle /\ FcIdle /\ WfIdle /\ LsIdle /\ ApiIdle /\ CnIdle /\ DpIdle /\ TfIdle
SpecHandleMissing == InitHandleMissing /\ [][NextHandleMissing]_vars

InitTrain == TrainStart /\ HoIdle /\ ClIdle /\ FfIdle /\ FcIdle /\ WfIdle /\ LsIdle /\ ApiIdle /\ CnIdle /\ DpIdle /\ FnIdle
SpecTrain == InitTrain /\ [][NextTrain]_vars

--------------------------------------------------------------------------
(* Properties.                                                             *)

TargetOf(df) == Column(df, "target")
DatesOf(df) == Column(df, "date")

StrictlyIncreasing(values) ==
    \A i, j \in 1..Len(values) : i < j => XLess(values[i], values[j])

SameWeekRows(df, i) ==
    {j \in 1..Len(df) : df[j].date[1] \div 7 = df[i].date[1] \div 7}

\* The mean of the driver over the rows of a set that hold a value.
DriverMeanOver(df, rows) ==
    LET present == {j \in rows : ~IsNaN(df[j].drv)}
        total[S \in SUBSET present] ==
            IF S = {} THEN IntV(0)
            ELSE LET j == CHOOSE k \in S : TRUE
                 IN  XAdd(df[j].drv, total[S \ {j}])
    IN  IF present = {} THEN NaN
        ELSE XMul(total[present], Num(1, Cardinality(present)))

\* C10: when weekly averaging is enabled, a numeric driver exists and the
\* median gap between consecutive dates is at most 2 days, the averaging step
\* replaces every row's driver value by the mean of the driver over the rows of
\* the same Sunday-ending week, keeps the row count and the other cells, and the
\* report's driver_weekly_averaging_applied is true; in every other case the
\* step changes nothing and the flag is false.
C10_WeeklyAveraging ==
    [][/\ (cl_pc = "deduped" /\ cl_pc' = "averaged") =>
            IF /\ cl_args.average_daily_drivers_to_weekly
               /\ cl_loc.numeric_driver_cols # <<>>
               /\ Len(cl_result) >= 2
               /\ XLeq(MedianGap(cl_result, "date"), IntV(2))
            THEN /\ Len(cl_result') = Len(cl_result)
                 /\ \A i \in 1..Len(cl_result) :
                        /\ cl_result'[i].drv =
                               DriverMeanOver(cl_result, SameWeekRows(cl_result, i))
                        /\ cl_result'[i].date = cl_result[i].date
                        /\ cl_result'[i].target = cl_result[i].target
                 /\ cl_loc'.driver_weekly_averaging_applied
            ELSE /\ cl_result' = cl_result
                 /\ ~cl_loc'.driver_weekly_averaging_applied
       /\ cl_pc' = "return" =>
            cl_report'.driver_weekly_averaging_applied =
                cl_loc.driver_weekly_averaging_applied
      ]_vars

\* After the averaging step: three daily rows, two of one week now sharing a
\* mean that neither held before, the third of the next week keeping its own.
C10_Witness ==
    /\ cl_pc = "averaged"
    /\ cl_loc.driver_weekly_averaging_applied
    /\ Len(cl_result) = 3
    /\ cl_result[1].drv = Num(9, 2)
    /\ cl_result[2].drv = Num(9, 2)
    /\ cl_result[3].drv = IntV(0)

\* The IQR bounds of the input column of the handle_outliers call.
InputLower == LowerBound(Column(ho_df, "v"))
InputUpper == UpperBound(Column(ho_df, "v"))

WithinInputBounds(x) == XLeq(InputLower, x) /\ XLeq(x, InputUpper)

\* C8 (as stated): 'cap' returns the same number of rows in the same order,
\* every (non-missing) value of the column lies within [lower_bound,
\* upper_bound], values already inside the bounds are unchanged and all other
\* columns are unchanged.
C8_CapWithinBounds ==
    (ho_pc = "return" /\ ho_action = "cap") =>
        /\ Len(ho_result) = Len(ho_df)
        /\ \A i \in 1..Len(ho_df) :
               /\ ho_result[i].o = ho_df[i].o
               /\ ~IsNaN(ho_result[i].v) => WithinInputBounds(ho_result[i].v)
               /\ WithinInputBounds(ho_df[i].v) => ho_result[i].v = ho_df[i].v

\* C8 (amended): 'cap' returns the same number of rows in the same order with
\* all other columns unchanged and values inside the bounds unchanged; when
\* the bounds are defined every non-missing value of the column lies within
\* them, and when they are undefined (the quartiles of the column are
\* infinite or the column holds no value) the column is returned as it was,
\* infinite values included.
C8_CapWithinDefinedBounds ==
    (ho_pc = "return" /\ ho_action = "cap") =>
        /\ Len(ho_result) = Len(ho_df)
        /\ \A i \in 1..Len(ho_df) :
               /\ ho_result[i].o = ho_df[i].o
               /\ WithinInputBounds(ho_df[i].v) => ho_result[i].v = ho_df[i].v
               /\ IsNaN(ho_df[i].v) => IsNaN(ho_result[i].v)
        /\ IF IsNaN(InputLower) \/ IsNaN(InputUpper)
           THEN ho_result = ho_df
           ELSE \A i \in 1..Len(ho_df) :
                    ~IsNaN(ho_result[i].v) => WithinInputBounds(ho_result[i].v)

\* A capped table in which one finite value was moved onto a bound and another
\* was left alone.
C8_Witness ==
    /\ ho_pc = "return"
    /\ ho_action = "cap"
    /\ \E i, k \in 1..Len(ho_df) :
           /\ IsFinite(ho_df[i].v)
           /\ ho_result[i].v # ho_df[i].v
           /\ ho_result[i].v \in {InputLower, InputUpper}
           /\ IsFinite(ho_df[k].v)
           /\ ho_result[k].v = ho_df[k].v

\* The input rows whose value is not an IQR outlier.
NonOutlierRows ==
    {i \in 1..Len(ho_df) :
        ~(XLess(ho_df[i].v, InputLower) \/ XLess(InputUpper, ho_df[i].v))}

\* The k-th input row, in input order, among a set of rows.
KthOf(rows, k) ==
    CHOOSE i \in rows : Cardinality({j \in rows : j <= i}) = k

\* C9: 'remove' returns exactly the rows of the input whose column value is
\* not an IQR outlier, in their original order and with unchanged cells; the
\* result is strictly shorter than the input whenever an outlier exists and of
\* the same length otherwise.
C9_RemoveKeepsNonOutliers ==
    (ho_pc = "return" /\ ho_action = "remove") =>
        /\ Len(ho_result) = Cardinality(NonOutlierRows)
        /\ \A k \in 1..Len(ho_result) :
               ho_result[k] = ho_df[KthOf(NonOutlierRows, k)]
        /\ Len(ho_result) < Len(ho_df) <=> NonOutlierRows # 1..Len(ho_df)
        /\ Len(ho_result) <= Len(ho_df)

\* A 'remove' call that dropped a row from the middle of the table and kept
\* rows on both sides of it.
C9_Witness ==
    /\ ho_pc = "return"
    /\ ho_action = "remove"
    /\ Len(ho_result) >= 2
    /\ \E i \in 2..(Len(ho_df) - 1) :
           /\ i \notin NonOutlierRows
           /\ (i - 1) \in NonOutlierRows
           /\ (i + 1) \in NonOutlierRows

\* The /train request of the last response asked for drivers that are all
\* columns of the uploaded driver table, for a project with an uploaded main
\* table that cleans to a ready table, an uploaded raw driver table and no
\* processed table of either kind.
RawDriverTrainCase ==
    /\ api_response.op = "train"
    /\ api_dataframes.present
    /\ api_dataframes.ready
    /\ api_driver_dataframes.present
    /\ ~api_processed_dataframes.present
    /\ ~api_processed_driver_dataframes.present
    /\ ValidStrategy(api_response.req.driver_outlier_strategy)
    /\ api_response.req.drivers # <<>>
    /\ Range(api_response.req.drivers) \subseteq ColumnsOf(api_driver_dataframes)

\* C2 (as stated): with an uploaded main table and an uploaded raw driver
\* table but no processed tables, a /train request naming a column of the
\* driver table succeeds and calls train_and_forecast with drivers equal to the
\* requested list and with a training table that contains that driver column.
C2_TrainUsesUploadedDrivers ==
    RawDriverTrainCase =>
        /\ api_response.call.made
        /\ api_response.call.returned => api_response.status = 200
        /\ api_response.call.drivers = api_response.req.drivers
        /\ Range(api_response.req.drivers) \subseteq api_response.call.columns

\* The positions 1..Len(buffer) read for the lags, counted from the end.
LagReads(buffer, lags) ==
    [j \in 1..Len(lags) |-> buffer[Len(buffer) - lags[j] + 1]]

\* C3: at the start of forecast step k the history buffer is the observed
\* values followed by the first k multivariate predictions; the lag inputs of
\* the baseline and of the multivariate model at that step are read from this
\* buffer (as is the seasonal-naive prediction); the step appends exactly one
\* value, the multivariate prediction of the step, never the baseline's.
C3_HistoryFeedsBack ==
    [][(fc_pc = "loop" /\ fc_loc' # fc_loc) =>
          LET k == Len(fc_loc.multi_forecasts)
              buffer == fc_args.observed \o fc_loc.multi_forecasts
          IN  /\ fc_loc.y_history = buffer
              /\ Len(fc_loc.baseline_forecasts) = k
              /\ fc_loc'.base_features = LagReads(buffer, fc_args.lags)
              /\ fc_loc'.multi_lags = LagReads(buffer, fc_args.lags)
              /\ fc_args.baseline_model = "seasonal_naive" =>
                     fc_loc'.baseline_forecasts[k + 1] \in Range(buffer)
              /\ Len(fc_loc'.multi_forecasts) = k + 1
              /\ fc_loc'.y_history =
                     Append(fc_loc.y_history, fc_loc'.multi_forecasts[k + 1])
      ]_vars

\* Two steps taken: the second read, for lag 1, the first multivariate
\* prediction, which differs from the first baseline prediction.
C3_Witness ==
    /\ fc_pc = "loop"
    /\ Len(fc_loc.multi_forecasts) = 2
    /\ fc_args.lags[1] = 1
    /\ fc_loc.base_features[1] = fc_loc.multi_forecasts[1]
    /\ fc_loc.multi_lags[1] = fc_loc.multi_forecasts[1]
    /\ fc_loc.baseline_forecasts[1] # fc_loc.multi_forecasts[1]
    /\ Len(fc_loc.y_history) = Len(fc_args.observed) + 2

\* C4: for every horizon h >= 1 and every observed series (long enough to
\* leave a frame row) forecast_future returns exactly h future timestamps,
\* strictly increasing and all strictly after the last observed date, and a
\* baseline and a multivariate prediction list of length h each.
C4_FutureTimestamps ==
    /\ fc_pc = "return" =>
        /\ Len(fc_loc.future_index) = fc_args.horizon
        /\ \A i, j \in 1..Len(fc_loc.future_index) :
               i < j => fc_loc.future_index[i] < fc_loc.future_index[j]
        /\ \A i \in 1..Len(fc_loc.future_index) :
               fc_loc.future_index[i] > fc_args.last_date
        /\ Len(fc_loc.baseline_forecasts) = fc_args.horizon
        /\ Len(fc_loc.multi_forecasts) = fc_args.horizon
    /\ fc_pc = "raise" => Len(fc_args.observed) <= MaxOf(fc_args.lags)

\* A returned forecast of several weeks for a series that ends on a Sunday.
C4_Witness ==
    /\ fc_pc = "return"
    /\ fc_args.horizon >= 2
    /\ fc_args.last_date % 7 = 6
    /\ fc_loc.future_index[1] = fc_args.last_date + 7

\* The results are in ascending order of a metric.
AscendingBy(results, key) ==
    \A i, j \in 1..Len(results) : i < j => results[i][key] <= results[j][key]

\* C5 (as stated): for either validation_mode the lag-search result list is
\* sorted ascending by the configured metric (wf_rmse_multi for walk_forward,
\* rmse_multi for single_split), its first element's metric is <= every other
\* element's metric, and the first element's lag set is the configuration
\* that select_lags returns.
C5_SortedByConfiguredMetric ==
    (ls_pc = "return" /\ ls_args.auto_select) =>
        LET key == IF ls_args.validation_mode = "walk_forward"
                   THEN "wf_rmse_multi" ELSE "rmse_multi"
            results == ls_loc.results
        IN  /\ AscendingBy(results, key)
            /\ \A i \in 1..Len(results) : results[1][key] <= results[i][key]
            /\ results[1].lags = ls_loc.lags

\* The first row that may get a prediction and the rows predicted before row
\* upto, in order.
FirstPredicted ==
    LET L == CHOOSE x \in Range(wf_args.lags) : \A y \in Range(wf_args.lags) : y <= x
        floor == IF L + 2 > 20 THEN L + 2 ELSE 20
    IN  IF wf_args.baseline_model = "seasonal_naive" /\ wf_args.seasonal_period > floor
        THEN wf_args.seasonal_period
        ELSE floor

PredictedBefore(upto) ==
    [j \in 1..(IF upto > FirstPredicted THEN upto - FirstPredicted ELSE 0) |->
        FirstPredicted + j - 1]

\* C6: walk_forward_rmse predicts only frame rows i with
\* min_train_size <= i < len(frame), one per row in ascending order; with the
\* lagged-ridge baseline a returning call has made exactly
\* len(frame) - min_train_size predictions, with the seasonal-naive baseline
\* the rows i < seasonal_period are skipped as well; evaluate_split and
\* evaluate_metrics pass min_train_size = max(20, max(lags) + 2, 8).
C6_WalkForwardRows ==
    /\ wf_pc \in {"loop", "return", "raise"} =>
        /\ wf_loc.min_train_size =
               (LET L == CHOOSE x \in Range(wf_args.lags) :
                             \A y \in Range(wf_args.lags) : y <= x
                IN  IF L + 2 > 20 THEN L + 2 ELSE 20)
        /\ \A j \in 1..Len(wf_loc.rows) :
               /\ wf_loc.min_train_size <= wf_loc.rows[j]
               /\ wf_loc.rows[j] < wf_args.frame_len
    /\ wf_pc = "loop" => wf_loc.rows = PredictedBefore(wf_loc.i)
    /\ wf_pc \in {"return", "raise"} =>
        /\ wf_loc.rows = PredictedBefore(wf_args.frame_len)
        /\ wf_pc = "raise" <=> wf_loc.rows = <<>>
    /\ (wf_pc = "return" /\ wf_args.baseline_model = "lagged_ridge") =>
           Len(wf_loc.rows) = wf_args.frame_len - wf_loc.min_train_size

\* A returned seasonal-naive backtest whose warm-up skipped rows 20 and 21
\* and predicted rows 22 and 23.
C6_Witness ==
    /\ wf_pc = "return"
    /\ wf_args.baseline_model = "seasonal_naive"
    /\ wf_loc.min_train_size = 20
    /\ wf_loc.rows = <<22, 23>>

\* The target has no missing value, the largest lag is below its length and
\* no cell of the driver, driver-lag and calendar blocks is missing.
FeatureCase ==
    LET n == Len(ff_args.target_series)
        d == ff_args.drivers_df
    IN  /\ \A i \in 1..n : ~IsNaN(ff_args.target_series[i])
        /\ \A j \in 1..Len(ff_args.lags) : ff_args.lags[j] < n
        /\ d.present => \A i \in 1..n : ~IsNaN(d.values[i])
        /\ ~ff_args.driver_lag_cols

\* C7: for a target of length n without missing values, a lag set of largest
\* lag L < n and driver/calendar blocks without missing cells,
\* build_feature_frame returns exactly n - L rows, the last n - L dates in
\* their order, and in each row target_lag_k is the target k rows earlier.
C7_FeatureFrameRows ==
    (ff_pc = "return" /\ FeatureCase) =>
        LET n == Len(ff_args.target_series)
            L == CHOOSE x \in Range(ff_args.lags) :
                     \A y \in Range(ff_args.lags) : y <= x
        IN  /\ Len(ff_result) = n - L
            /\ \A r \in 1..Len(ff_result) :
                   /\ ff_result[r].index = L + r
                   /\ ff_result[r].cells[<<"y", 0>>] = ff_args.target_series[L + r]
                   /\ \A j \in 1..Len(ff_args.lags) :
                          ff_result[r].cells[<<"target_lag", ff_args.lags[j]>>] =
                              ff_args.target_series[L + r - ff_args.lags[j]]

\* A returned frame of two rows for lags 1 and 2, with a driver and a calendar
\* block.
C7_Witness ==
    /\ ff_pc = "return"
    /\ FeatureCase
    /\ ff_args.lags = <<1, 2>>
    /\ ff_args.drivers_df.present
    /\ ff_args.calendar_df
    /\ Len(ff_result) = 2

\* Two labels differ only in letter case, surrounding blanks or runs of
\* non-alphanumeric characters: _normalize_column_name maps them to one name.
SameUpToCaseAndPunctuation(a, b) == NormalizeLabel(a) = NormalizeLabel(b)

\* C11: against the mapping built from a table's column labels, two requested
\* labels that differ only in letter case, surrounding whitespace or runs of
\* non-alphanumeric characters resolve to the same canonical key, and
\* resolving a canonical key of the table returns that key unchanged.
C11_ResolveIsCaseAndPunctuationBlind ==
    (cn_pc = "mapped" /\ cn_loc.requested # <<>>) =>
        /\ \A other \in RequestedLabels :
              SameUpToCaseAndPunctuation(other, cn_loc.requested) =>
                  ResolveLabel(other, cn_loc.mapping) = cn_loc.resolved
        /\ cn_loc.requested \in Range(cn_loc.columns) =>
              cn_loc.resolved = [ok |-> TRUE, key |-> cn_loc.requested]

\* The suffix a column's key carries: 1 for the bare base, k for base_k, 0 when
\* the key is neither.
SuffixOf(label, key, max_idx) ==
    LET base == NormalizeLabel(label)
    IN  IF key = base THEN 1
        ELSE IF \E k \in 2..max_idx : key = base \o <<"_">> \o Str(k)
        THEN CHOOSE k \in 2..max_idx : key = base \o <<"_">> \o Str(k)
        ELSE 0

\* C12: after the renaming through _build_column_mapping no two columns of the
\* table share a canonical key; a column's key is its normalised base or the
\* base with a suffix _2, _3, ..., given out in column order among the labels
\* with the same base.
C12_CanonicalKeysUnique ==
    cn_pc = "mapped" =>
        LET labels == cn_df.columns
            keys == cn_loc.columns
            n == Len(labels)
        IN  /\ Len(keys) = n
            /\ \A i, j \in 1..n : i # j => keys[i] # keys[j]
            /\ \A i \in 1..n : SuffixOf(labels[i], keys[i], n + 1) >= 1
            /\ \A i, j \in 1..n :
                  (i < j /\ NormalizeLabel(labels[i]) = NormalizeLabel(labels[j])) =>
                      SuffixOf(labels[i], keys[i], n + 1)
                          < SuffixOf(labels[j], keys[j], n + 1)

\* The delimited dates of a column that an interpretation reads as dates.
ParsedUnder(values, interpretation) ==
    {i \in 1..Len(values) :
        IsDelimited(values[i]) /\ Interpret(values[i], interpretation) # NaT}

\* One interpretation accounts for every parsed delimited date of the column
\* and no other interpretation parses more of the column.
OneInterpretation(values, parsed) ==
    \E h \in {"dayfirst", "monthfirst"} :
        /\ \A i \in 1..Len(values) :
              (IsDelimited(values[i]) /\ parsed[i] # NaT) =>
                  parsed[i] = Interpret(values[i], h)
        /\ (\E i \in 1..Len(values) : IsDelimited(values[i]) /\ parsed[i] # NaT) =>
              Cardinality(ParsedUnder(values, h))
                  >= Cardinality(ParsedUnder(values, OtherInterpretation(h)))

\* C13: date parsing is consistent per column, in parse_datetime_series and in
\* the cleaning pipeline: the delimited dates of a column are all parsed
\* under one interpretation (day-first or month-first), the one that parses
\* the most values of the column; no two rows are parsed under different
\* interpretations.
C13_OneInterpretationPerColumn ==
    dp_pc \in {"parse_datetime_series", "clean_dataframe_for_training"} =>
        OneInterpretation(dp_args.values, dp_result)

\* The table that clean_dataframe_for_training refuses as empty.
EmptyTable(df) == df.rows = 0 \/ df.columns = <<>>

\* A label names one of the given columns: it is one of their labels, or one of
\* their canonical keys, or its normalised form is one of the keys.
NamesAColumn(label, columns) ==
    LET keys == Range(RenamedColumns(columns, BuildColumnMapping(columns)))
    IN  label \in Range(columns) \/ label \in keys \/ NormalizeLabel(label) \in keys

\* C14: clean_dataframe_for_training fails with a ValueError, returning
\* neither a cleaned table nor a report, when the input table is empty or
\* when the requested date label or the requested target label cannot be
\* resolved against the table's columns (those that hold a value: the
\* pipeline drops the others first).
C14_RaisesOnEmptyOrUnresolved ==
    (/\ cn_pc \in {"raise", "resolved"}
     /\ \/ EmptyTable(cn_df)
        \/ ~NamesAColumn(cn_args.date_col, KeptLabels(cn_df))
        \/ ~NamesAColumn(cn_args.target_col, KeptLabels(cn_df))) =>
        /\ cn_pc = "raise"
        /\ cn_loc.error \in {"Input dataframe is empty", "Column not found"}
        /\ cn_loc = [NoColumnLocals EXCEPT !.error = cn_loc.error]

\* The pipeline has raised on a table with rows and columns whose date label
\* resolves and whose target label does not.
C14_Witness ==
    /\ cn_pc = "raise"
    /\ ~EmptyTable(cn_df)
    /\ NamesAColumn(cn_args.date_col, KeptLabels(cn_df))
    /\ ~NamesAColumn(cn_args.target_col, KeptLabels(cn_df))
    /\ cn_loc.error = "Column not found"

\* The requested driver labels that name a column other than the date and the
\* target column, as canonical keys in request order.
ResolvingDrivers(requested, columns, date_key, target_key) ==
    LET mapping == BuildColumnMapping(columns)
        key(i) == ResolveLabel(requested[i], mapping).key
        keep == [i \in 1..Len(requested) |->
                    /\ NamesAColumn(requested[i], columns)
                    /\ key(i) \notin {date_key, target_key}]
        kept == FilterIdx([i \in 1..Len(requested) |-> i], keep, 1)
    IN  [j \in 1..Len(kept) |-> key(kept[j])]

\* C16: for any list of requested driver labels clean_dataframe_for_training
\* does not fail because a driver label does not resolve (it goes on whenever
\* the table is not empty and the date and target labels resolve), and the
\* report's driver_cols is exactly, in request order, the canonical keys of
\* the driver labels that resolve, without those that resolve to the date or
\* the target column.
C16_UnknownDriversDropped ==
    (/\ cn_pc \in {"raise", "resolved"}
     /\ ~EmptyTable(cn_df)
     /\ NamesAColumn(cn_args.date_col, KeptLabels(cn_df))
     /\ NamesAColumn(cn_args.target_col, KeptLabels(cn_df))) =>
        /\ cn_pc = "resolved"
        /\ cn_loc.driver_cols =
              ResolvingDrivers(cn_args.driver_cols, KeptLabels(cn_df),
                               cn_loc.date_col, cn_loc.target_col)

\* The pipeline went on with a request that names an unknown driver before a
\* real one, and reports the real one alone.
C16_Witness ==
    /\ cn_pc = "resolved"
    /\ Len(cn_args.driver_cols) = 2
    /\ ~NamesAColumn(cn_args.driver_cols[1], KeptLabels(cn_df))
    /\ NamesAColumn(cn_args.driver_cols[2], KeptLabels(cn_df))
    /\ Len(cn_loc.driver_cols) = 1

\* No row of the input survives parsing: no date is parseable, or no target
\* value is.
NoRowSurvivesParsing(df) ==
    \/ \A i \in 1..Len(df) : CoerceCell(df[i].date) = NaN
    \/ \A i \in 1..Len(df) : CoerceCell(df[i].target) = NaN

\* C15: when zero rows survive parsing, clean_dataframe_for_training raises an
\* error carrying the row-loss cause ("No rows left after parsing", which the
\* /process handler looks for) instead of returning an empty cleaned table.
C15_RaisesWhenNoRowsSurvive ==
    (/\ cl_pc \in {"return", "raise"}
     /\ cl_df # <<>>
     /\ {cl_args.date_col, cl_args.target_col} \subseteq KeptColumns(DropEmptyRows(cl_df))
     /\ NoRowSurvivesParsing(cl_df)) =>
        /\ cl_pc = "raise"
        /\ cl_report.error = "No rows left after parsing"

\* The conditions under which a table is ready: the target column exists and
\* has no missing value, no column is entirely missing and no numeric column
\* holds an infinite value.
ReadyConditions(args) ==
    /\ args.target_column \in args.columns
    /\ \A i \in 1..Len(args.df) : ~IsNaN(args.df[i][args.target_column])
    /\ \A c \in args.columns : ~(\A i \in 1..Len(args.df) : IsNaN(args.df[i][c]))
    /\ \A c \in args.numeric : \A i \in 1..Len(args.df) : ~IsInf(args.df[i][c])

ReadyVerdict ==
    /\ fn_result.ready <=> (fn_result.errors = {})
    /\ fn_result.ready <=> ReadyConditions(fn_args)

\* C17 as stated: validate_ready_for_ml returns ready = true exactly when its
\* error list is empty, i.e. when the target column exists, the target has no
\* missing value, no column is entirely missing and no numeric column holds
\* an infinite value; a row count below min_rows adds one warning and never
\* makes ready false.
C17_ReadyIffNoErrors ==
    (fn_pc = "return" /\ fn_args.fn = "validate_ready_for_ml") =>
        /\ ReadyVerdict
        /\ Cardinality(fn_result.warnings) =
              IF Len(fn_args.df) < fn_args.min_rows THEN 1 ELSE 0

\* C17 as amended: the verdict as stated; the low-row warning is added only
\* when the target column exists, and there is no warning at all when it
\* does not.
C17_ReadyIffNoErrorsWarnWithTarget ==
    (fn_pc = "return" /\ fn_args.fn = "validate_ready_for_ml") =>
        /\ ReadyVerdict
        /\ Cardinality(fn_result.warnings) =
              IF /\ fn_args.target_column \in fn_args.columns
                 /\ Len(fn_args.df) < fn_args.min_rows
              THEN 1 ELSE 0

\* A table below min_rows was found ready, with its warning.
C17_Witness ==
    /\ fn_pc = "return"
    /\ fn_args.fn = "validate_ready_for_ml"
    /\ fn_args.df # <<>>
    /\ Len(fn_args.df) < fn_args.min_rows
    /\ fn_result.ready
    /\ fn_result.warnings # {}

\* C18: a lag configuration is a non-empty ordered set of positive integers:
\* parse_lag_config rejects a configuration string that yields no lag, and
\* every lag list it returns holds only positive integers, none of them
\* twice.
C18_LagsPositiveAndDistinct ==
    (fn_pc \in {"return", "raise"} /\ fn_args.fn = "parse_lag_config") =>
        /\ Items(fn_args.value) = <<>> => fn_pc = "raise"
        /\ fn_pc = "return" =>
              /\ fn_result # <<>>
              /\ \A i \in 1..Len(fn_result) : fn_result[i] > 0
              /\ \A i, j \in 1..Len(fn_result) : i # j => fn_result[i] # fn_result[j]

\* The alias table of the outlier strategies: clip is cap, none is keep.
StrategyAlias(strategy) ==
    IF strategy = "clip" THEN "cap"
    ELSE IF strategy = "none" THEN "keep"
    ELSE strategy

AllowedStrategies == {"keep", "cap", "remove"}

\* A strategy the last request carried that is outside the allowed set
\* after alias normalization.
AskedOutsideAllowed ==
    \/ /\ api_response.op = "process"
       /\ StrategyAlias(api_response.asked.outlier_strategy) \notin AllowedStrategies
    \/ /\ api_response.op \in {"process", "train"}
       /\ StrategyAlias(api_response.asked.driver_outlier_strategy)
              \notin AllowedStrategies

\* C19: for a project that exists, /process and /train answer 400 and make
\* no clean_dataframe_for_training call when a target or driver outlier
\* strategy of the request is outside {keep, cap, remove} after clip -> cap
\* and none -> keep; every call of clean_dataframe_for_training receives
\* actions of that set, each being the alias-normalized strategy of the
\* request (never a default put in place of a strategy the request gave).
C19_StrategiesNormalizedOrRejected ==
    api_response.op \in {"process", "train"} /\ api_response.status # 404 =>
        /\ AskedOutsideAllowed =>
               api_response.status = 400 /\ ~api_response.clean.made
        /\ api_response.clean.made =>
               /\ api_response.clean.outlier_action \in AllowedStrategies
               /\ api_response.clean.driver_outlier_action \in AllowedStrategies
               /\ api_response.clean.driver_outlier_action =
                      StrategyAlias(api_response.asked.driver_outlier_strategy)
               /\ api_response.op = "process" =>
                      api_response.clean.outlier_action =
                          StrategyAlias(api_response.asked.outlier_strategy)

\* /process rejected a strategy of an existing project.
C19_Witness ==
    /\ api_response.op = "process"
    /\ api_response.status = 400
    /\ api_response.asked.outlier_strategy = "clip"
    /\ api_response.asked.driver_outlier_strategy = "trim"
    /\ ~api_response.clean.made

\* A test_size that is an absolute integer count or a fraction in (0,1).
CountOrFraction(value) ==
    \/ value.type = "int"
    \/ value.type = "float" /\ IsFraction(value)
    \/ value.type = "str" /\ value.numeric /\ (~value.decimal \/ IsFraction(value))

\* C20: for a frame of n >= 2 rows and a test_size that is an absolute
\* integer count or a fraction in (0,1), parse_test_size returns t with
\* 1 <= t <= n - 1.
C20_TestSizeWithinFrame ==
    /\ fn_args.fn = "parse_test_size"
    /\ fn_pc \in {"return", "raise"}
    /\ fn_args.n_rows >= 2
    /\ CountOrFraction(fn_args.value)
    => /\ fn_pc = "return"
       /\ 1 <= fn_result
       /\ fn_result <= fn_args.n_rows - 1

\* The rows among a set of frame rows that have at least seasonal_period
\* earlier rows in the frame, so that their seasonal-naive prediction exists.
WithSeasonalHistory(rows) == {r \in rows : r >= wf_args.seasonal_period}

\* C21: with the seasonal-naive baseline the baseline and the multivariate
\* model are scored on the same rows, in the single split and in the
\* walk-forward backtest: the test rows (the rows from min_train_size on)
\* that have at least seasonal_period earlier rows, and no others.
C21_SameRowsScored ==
    wf_args.baseline_model = "seasonal_naive" /\ wf_pc \in {"loop", "return", "raise"} =>
        /\ wf_loc.split.y_pred_base = wf_loc.split.y_pred_multi
        /\ wf_loc.split.y_test = wf_loc.split.y_pred_multi
        /\ Range(wf_loc.split.y_pred_multi) =
               WithSeasonalHistory(Range(wf_loc.split.test))
        /\ wf_loc.preds_base = wf_loc.preds_multi
        /\ wf_loc.rows = wf_loc.preds_multi
        /\ Range(wf_loc.preds_multi) =
               WithSeasonalHistory(
                   wf_loc.min_train_size ..
                       ((IF wf_pc = "loop" THEN wf_loc.i ELSE wf_args.frame_len) - 1))

\* A returned evaluation whose split test rows are 21, 22 and 23 and whose
\* seasonal period of 22 leaves rows 22 and 23 to both models, in the split
\* and in the backtest.
C21_Witness ==
    /\ wf_pc = "return"
    /\ wf_args.baseline_model = "seasonal_naive"
    /\ wf_args.seasonal_period = 22
    /\ wf_loc.split.test = <<21, 22, 23>>
    /\ wf_loc.split.y_pred_base = <<22, 23>>
    /\ wf_loc.split.y_pred_multi = <<22, 23>>
    /\ wf_loc.preds_base = <<22, 23>>

\* The records of one model among the fits of the loop, in order.
FitsOf(model) ==
    LET is_model == [k \in 1..Len(wf_loc.fits) |-> wf_loc.fits[k].model = model]
    IN  FilterIdx(wf_loc.fits, is_model, 1)

\* C28: every walk-forward step predicts exactly one frame row i, the
\* models fitted in the step are fitted on rows below i only (the rows
\* 0..i-1), the seasonal-naive baseline reads a row below i, every predicted
\* row has its multivariate fit (and its ridge fit or seasonal source), and
\* from one fit of a model to the next the training window grows by one row.
C28_WalkForwardSeesOnlyThePast ==
    wf_pc \in {"loop", "return", "raise"} =>
        /\ \A k \in 1..Len(wf_loc.fits) :
               LET f == wf_loc.fits[k]
               IN  /\ Len(f.test) = 1
                   /\ \A j \in 1..Len(f.train) : f.train[j] < f.test[1]
                   /\ \A j \in 1..Len(f.source) :
                          0 <= f.source[j] /\ f.source[j] < f.test[1]
                   /\ f.model \in {"ridge", "multi"} =>
                          Range(f.train) = 0..(f.test[1] - 1)
                   /\ f.model = "seasonal_naive" =>
                          f.source = <<f.test[1] - wf_args.seasonal_period>>
        /\ [k \in 1..Len(FitsOf("multi")) |-> FitsOf("multi")[k].test[1]]
               = wf_loc.preds_multi
        /\ [k \in 1..Len(wf_loc.preds_base) |->
               IF wf_args.baseline_model = "seasonal_naive"
               THEN FitsOf("seasonal_naive")[k].test[1]
               ELSE FitsOf("ridge")[k].test[1]] = wf_loc.preds_base
        /\ \A model \in {"ridge", "multi"} :
               \A k \in 1..(Len(FitsOf(model)) - 1) :
                   /\ Len(FitsOf(model)[k + 1].train) = Len(FitsOf(model)[k].train) + 1
                   /\ FitsOf(model)[k + 1].test[1] = FitsOf(model)[k].test[1] + 1

\* A returned backtest of three steps with the lagged-ridge baseline.
C28_Witness ==
    /\ wf_pc = "return"
    /\ wf_args.baseline_model = "lagged_ridge"
    /\ wf_loc.preds_multi = <<20, 21, 22>>
    /\ Len(wf_loc.fits) = 6
    /\ Len(wf_loc.fits[6].train) = 22

PresentValues(df, column) == DropNaN(Column(df, column))
MeanIsDefined(df, column) ==
    ~(PInf \in Range(PresentValues(df, column))
          /\ NInf \in Range(PresentValues(df, column)))

\* A call of handle_missing and what it must do: raise for a column that is
\* not in the table, for an unknown strategy and for 'value' without a
\* fill_value, and return otherwise; leave the caller's table as it was;
\* 'drop' returns the rows with a value in the column, in order; 'mean'
\* returns as many rows as it got, without a missing value in the column
\* when a value is present (and, if mean_defined, when their mean is a
\* number).
HandleMissingStep(mean_defined) ==
    (fn_pc = "call" /\ fn_args.fn = "handle_missing" /\ fn_pc' # "call") =>
        LET df == fn_args.df
            column == fn_args.column
            must_raise ==
                \/ column \notin fn_args.columns
                \/ fn_args.strategy \notin
                       {"drop", "mean", "median", "ffill", "bfill", "interpolate",
                        "value"}
                \/ fn_args.strategy = "value" /\ ~fn_args.fill_value.given
        IN  /\ fn_args'.df = df
            /\ must_raise <=> fn_pc' = "raise"
            /\ fn_pc' = "raise" => fn_result' = <<"ValueError">>
            /\ (fn_pc' = "return" /\ fn_args.strategy = "drop") =>
                   fn_result' =
                       FilterIdx(df, [i \in 1..Len(df) |-> ~IsNaN(df[i][column])], 1)
            /\ (fn_pc' = "return" /\ fn_args.strategy = "mean") =>
                   /\ Len(fn_result') = Len(df)
                   /\ (/\ PresentValues(df, column) # <<>>
                       /\ mean_defined => MeanIsDefined(df, column))
                      => \A i \in 1..Len(df) : ~IsNaN(fn_result'[i][column])

\* C23 (as stated): handle_missing raises ValueError for an unknown
\* strategy, for 'value' without a fill_value and for a column that is not
\* in the table, never modifies its input table, 'drop' returns exactly the
\* rows whose column value is present, and 'mean' returns a table of the same
\* length without a missing value in the column when a value is present.
C23_HandleMissingContract == [][HandleMissingStep(FALSE)]_vars

\* C23 (amended): as stated, with 'mean' leaving no missing value when a
\* value is present and the present values do not hold both +inf and -inf.
C23_HandleMissingContractDefinedMean == [][HandleMissingStep(TRUE)]_vars

\* 'mean' has filled the missing cell of a column with the values 1 and 3.
C23_Witness ==
    /\ fn_pc = "return"
    /\ fn_args.fn = "handle_missing"
    /\ fn_args.strategy = "mean"
    /\ Column(fn_args.df, "x") = <<IntV(1), NaN, IntV(3)>>
    /\ Column(fn_result, "x") = <<IntV(1), IntV(2), IntV(3)>>

\* The action the drivers are to get: the driver action of the call, the
\* target's action when the call names none.
DriverActionOfCall ==
    IF cl_args.driver_outlier_action = "none"
    THEN cl_args.outlier_action
    ELSE cl_args.driver_outlier_action

C24_LastDuplicateKept ==
    [][(cl_pc = "parsed" /\ cl_pc' = "deduped") =>
          \A i \in 1..Len(cl_result) :
              LET col == cl_loc.date_col
                  same == {j \in 1..Len(cl_result) :
                              cl_result[j][col] = cl_result[i][col]}
                  last == CHOOSE j \in same : \A k \in same : k <= j
                  left == {k \in 1..Len(cl_result') :
                              cl_result'[k][col] = cl_result[i][col]}
              IN  /\ Cardinality(left) = 1
                  /\ \A k \in left : cl_result'[k] = cl_result[last]
      ]_vars

\* The number a cell is to yield: currency symbols, thousands separators,
\* percent signs and whitespace removed, a parenthesized amount negative, a
\* missing value for what is still no number.
AmountOf(s) ==
    LET stripped == RemoveChars(s, {"$", ",", "%", " "})
        n == Len(stripped)
    IN  IF n >= 3 /\ stripped[1] = "(" /\ stripped[n] = ")"
        THEN XNeg(ToNumeric(SubSeq(stripped, 2, n - 1)))
        ELSE ToNumeric(stripped)

\* C25: target coercion yields for every cell the number that is left when
\* currency symbols, thousands separators, percent signs and whitespace are
\* stripped and a parenthesized amount is taken as negative, and a missing
\* value for every cell that is still no number.
C25_CoercionStripsAndParses ==
    (fn_pc = "return" /\ fn_args.fn = "_coerce_numeric") =>
        \A i \in 1..Len(fn_args.values) : fn_result[i] = AmountOf(fn_args.values[i])


\* The number of holidays in the week ending on a date.
HolidaysOfWeek(day) == Cardinality({h \in UKHolidays : day - 7 < h /\ h <= day})

\* C26: in every future row the uploaded driver column holds its last known
\* value, the calendar columns and holiday_count are computed from the
\* future date itself, and every multivariate feature column of the training
\* frame is present in the row.
C26_FutureRows ==
    (fn_pc = "return" /\ fn_args.fn = "build_future_drivers") =>
        \A i \in 1..Len(fn_result) :
            LET r == fn_result[i]
            IN  /\ fn_args.drivers # <<>> =>
                       r.row["temp"] = fn_args.drivers[Len(fn_args.drivers)]
                /\ fn_args.calendar_features =>
                       \A c \in CalendarColumns :
                           r.row[c] = CalendarFeatures(r.date)[c]
                /\ fn_args.holiday_features =>
                       r.row["holiday_count"] = IntV(HolidaysOfWeek(r.date))
                /\ r.multivariate_features \subseteq r.multi_row


\* The history is regularly spaced: a fixed number of days apart, or on
\* consecutive month starts.
FixedStep(index) ==
    \A i \in 2..Len(index) : index[i] - index[i - 1] = index[2] - index[1]
MonthlySteps(index) ==
    \A i \in 2..Len(index) :
        \E m \in 2..Len(MonthStarts) :
            index[i - 1] = MonthStarts[m - 1] /\ index[i] = MonthStarts[m]

\* The date one period after a date, at the cadence of the history.
OnePeriodAfter(index, day) ==
    IF FixedStep(index) THEN day + (index[2] - index[1])
    ELSE CHOOSE d \in Range(MonthStarts) :
             d > day /\ \A e \in Range(MonthStarts) : e > day => d <= e

\* C29: for a regularly spaced history, the first future timestamp is one
\* period after the last observed date and each later one is one period
\* after its predecessor, at the cadence of the history.
C29_FutureAtInferredCadence ==
    (/\ fn_pc = "return"
     /\ fn_args.fn = "forecast_future"
     /\ FixedStep(fn_args.index) \/ MonthlySteps(fn_args.index)) =>
        /\ Len(fn_result) = fn_args.horizon
        /\ fn_result[1] =
               OnePeriodAfter(fn_args.index, fn_args.index[Len(fn_args.index)])
        /\ \A i \in 2..Len(fn_result) :
               fn_result[i] = OnePeriodAfter(fn_args.index, fn_result[i - 1])


\* One step of the handlers, named by the response it leaves, against the
\* caches before and after it.
CacheStep ==
    /\ api_response'.op = "upload" =>
           /\ api_dataframes'.present
           /\ api_processed_dataframes' = api_processed_dataframes
    /\ (api_response'.op = "process" /\ api_response'.status # 200) =>
           /\ api_processed_dataframes' = api_processed_dataframes
           /\ ~api_processed_driver_dataframes'.present
    /\ (/\ api_response'.op = "train"
        /\ api_response'.status # 404
        /\ api_response'.asked.driver_outlier_strategy
               \in {"keep", "cap", "remove", "clip", "none"}) =>
           IF api_processed_dataframes.present
           THEN /\ ~api_response'.clean.made
                /\ api_response'.call.made =>
                       /\ ColumnsOf(api_processed_dataframes)
                              \subseteq api_response'.call.columns
                       /\ api_response'.call.columns
                              \ Range(api_response'.call.drivers)
                              \subseteq ColumnsOf(api_processed_dataframes)
           ELSE api_response'.clean.made

\* C30: /train works on the cached processed table whenever there is one and
\* otherwise cleans the uploaded table; /upload replaces the uploaded table
\* and leaves the processed table; a rejected /process leaves the processed
\* table as it was and the processed driver table absent.
C30_CacheSemantics == [][CacheStep]_vars

\* /train ran on the processed table of an earlier upload: the uploaded table
\* of the moment would not pass the readiness check of a fresh cleaning.
C30_Witness ==
    /\ api_response.op = "train"
    /\ api_response.status = 200
    /\ api_response.call.made
    /\ ~api_response.clean.made
    /\ api_processed_dataframes.present
    /\ ~api_dataframes.ready
    /\ ~api_processed_driver_dataframes.present

==========================================================================
